---- MODULE Spec2Model ----
(***************************************************************************)
(* A model of the knowledge-graph service in src/python-service/app:       *)
(* the in-memory store of MemvidKnowledgeGraph (core/knowledge_graph.py),  *)
(* the validators (utils/validators.py) and the HTTP handlers of           *)
(* api/entities.py, api/relationships.py and api/projects.py.              *)
(*                                                                         *)
(* Every handler is one atomic action: the coroutines never suspend (the   *)
(* awaited methods contain no real await), so a request runs from its      *)
(* validation to its response without interleaving.                        *)
(*                                                                         *)
(* Strings are sequences of one-character strings, so that str.strip()     *)
(* and str.lower() are computed.  Python dicts are sequences of records    *)
(* in insertion order, keyed by the field id.  Timestamps are left out.    *)
(*                                                                         *)
(* retriever is the attribute of that name (None, or a MemvidRetriever);   *)
(* call is the read request being served (main.py, api/search.py), with    *)
(* the locals of its handler, or its response once it has returned.        *)
(*                                                                         *)
(* env is what the process runs on: whether the memvid package is          *)
(* installed and whether its encoder works, and whether the metadata file  *)
(* can be written.  done lists the calls the last request made to          *)
(* uuid.uuid4, _save_metadata and _rebuild_video, in order, followed by    *)
(* "raise" when an exception left _save_metadata or _rebuild_video.        *)
(* tasks are the requests that the event loop serves concurrently, each    *)
(* with the position of its coroutine, in the behaviours that follow the   *)
(* handlers statement by statement (elsewhere there are none).             *)
(***************************************************************************)
EXTENDS Integers, Sequences, FiniteSets, TLC

VARIABLES entities, relationships, projects, snapshot, issued, last, pre,
          retriever, call, env, done, tasks

vars == <<entities, relationships, projects, snapshot, issued, last, pre,
          retriever, call, env, done, tasks>>

----------------------------------------------------------------------------
(* Bounds of the model.                                                    *)

NumEntityIds == 2

NumRelationshipIds == 1

NumProjectIds == 1

NumGraphEntityIds == 3

NumGraphRelationshipIds == 2

NumObservationIds == 1

----------------------------------------------------------------------------
(* Python values.                                                          *)

None == <<"None">>

Truthy(v) == v # None /\ v # <<>>

Retriever == <<"MemvidRetriever">>

IsSpace(c) == c = " "

RECURSIVE LStrip(_)
LStrip(s) == IF s # <<>> /\ IsSpace(Head(s)) THEN LStrip(Tail(s)) ELSE s

RECURSIVE RStrip(_)
RStrip(s) ==
    IF s # <<>> /\ IsSpace(s[Len(s)]) THEN RStrip(SubSeq(s, 1, Len(s) - 1)) ELSE s

Strip(s) == RStrip(LStrip(s))

LowerChar(c) ==
    CASE c = "A" -> "a"
      [] c = "B" -> "b"
      [] c = "D" -> "d"
      [] c = "N" -> "n"
      [] c = "P" -> "p"
      [] c = "R" -> "r"
      [] c = "T" -> "t"
      [] c = "U" -> "u"
      [] OTHER -> c

RECURSIVE Lower(_)
Lower(s) == IF s = <<>> THEN <<>> ELSE <<LowerChar(Head(s))>> \o Lower(Tail(s))

(* An insertion-ordered dict of records keyed by their id.                 *)
Keys(d) == {d[i].id : i \in DOMAIN d}

Lookup(d, k) == d[CHOOSE i \in DOMAIN d : d[i].id = k]

RECURSIVE Put(_, _)
Put(d, v) ==
    IF d = <<>> THEN <<v>>
    ELSE IF Head(d).id = v.id THEN <<v>> \o Tail(d)
    ELSE <<Head(d)>> \o Put(Tail(d), v)

DelKeys(d, ks) == SelectSeq(d, LAMBDA x : x.id \notin ks)

----------------------------------------------------------------------------
(* Identifiers.                                                            *)

Digits == <<"1", "2", "3", "4", "5">>

DefaultId == <<"d", "e", "f", "a", "u", "l", "t">>

DefaultName == <<"D", "e", "f">>

EntityIdPool == {<<"e", Digits[n]>> : n \in 1..NumEntityIds}

RelationshipIdPool == {<<"r", Digits[n]>> : n \in 1..NumRelationshipIds}

ProjectIdPool == {<<"p", Digits[n]>> : n \in 1..NumProjectIds}

ObservationIdPool == {<<"o", Digits[n]>> : n \in 1..NumObservationIds}

(* str(uuid.uuid4()): a value nobody has seen before.                      *)
Uuid4(pool) == pool \ issued

(* x.id = x.id or str(uuid.uuid4())                                        *)
IdOrUuid(id, pool) == IF Truthy(id) THEN {id} ELSE Uuid4(pool)

(* The call of uuid.uuid4 that the `or' makes when no id is given.         *)
UuidCalls(id) == IF Truthy(id) THEN <<>> ELSE <<"uuid4">>

----------------------------------------------------------------------------
(* utils/validators.py.  A validator yields the HTTPException it raises    *)
(* (status code and detail), or Ok when it returns normally.  An uncaught  *)
(* exception is answered with status 500.  A detail that the code formats *)
(* around the offending value is written as its fixed wording.             *)

Ok == [status |-> 0, detail |-> "ok"]

Err(status, detail) == [status |-> status, detail |-> detail]

ValidateProjectId(project_id, projs) ==
    IF ~Truthy(project_id) THEN Err(400, "Project ID is required")
    ELSE IF project_id \notin Keys(projs) THEN Err(404, "Project not found")
    ELSE Ok

(* Mutant: the identifier is not looked up.                                *)
ValidateEntityIdNoLookup(entity_id, ents) ==
    IF ~Truthy(entity_id) THEN Err(400, "Entity ID is required") ELSE Ok

ValidateEntityId(entity_id, ents) ==
    IF ~Truthy(entity_id) THEN Err(400, "Entity ID is required")
    ELSE IF entity_id \notin Keys(ents) THEN Err(404, "Entity not found")
    ELSE Ok

(* The cleaned entity_data that validate_entity_creation returns.          *)
CleanEntityData(entity_data) ==
    [entity_data EXCEPT !.name = Strip(entity_data.name),
                        !.type = Strip(entity_data.type),
                        !.description = Strip(entity_data.description),
                        !.addedBy = Strip(entity_data.addedBy)]

ValidateEntityCreation(entity_data, projs) ==
    IF Strip(entity_data.name) = <<>> THEN Err(400, "Entity name is required and cannot be empty")
    ELSE IF Strip(entity_data.type) = <<>> THEN Err(400, "Entity type is required and cannot be empty")
    ELSE IF Strip(entity_data.description) = <<>>
         THEN Err(400, "Entity description is required and cannot be empty")
    ELSE IF Strip(entity_data.addedBy) = <<>> THEN Err(400, "addedBy field is required and cannot be empty")
    ELSE IF entity_data.projectId # DefaultId
         THEN ValidateProjectId(entity_data.projectId, projs)
    ELSE Ok

(* The loop over entities.values(): None.lower() raises AttributeError,    *)
(* which no handler catches.  The conjunction short-circuits, so the type  *)
(* is lowered only when the names are equal.                               *)
RECURSIVE ValidateDuplicateEntity(_, _)
ValidateDuplicateEntity(entity_data, ents) ==
    IF ents = <<>> THEN Ok
    ELSE LET existing_entity == Head(ents)
         IN  IF existing_entity.name = None THEN Err(500, "AttributeError")
             ELSE IF Lower(existing_entity.name) # Lower(entity_data.name)
                  THEN ValidateDuplicateEntity(entity_data, Tail(ents))
             ELSE IF existing_entity.type = None THEN Err(500, "AttributeError")
             ELSE IF /\ Lower(existing_entity.type) = Lower(entity_data.type)
                     /\ existing_entity.projectId = entity_data.projectId
                  THEN Err(409, "Entity already exists")
             ELSE ValidateDuplicateEntity(entity_data, Tail(ents))

(* The cleaned obs_data that validate_observation_creation returns.        *)
CleanObservationData(obs_data) ==
    [entityId |-> Strip(obs_data.entityId), text |-> Strip(obs_data.text),
     addedBy |-> Strip(obs_data.addedBy)]

ValidateObservationCreation(obs_data, ents) ==
    IF Strip(obs_data.entityId) = <<>>
    THEN Err(400, "entityId is required and cannot be empty")
    ELSE IF Strip(obs_data.text) = <<>>
    THEN Err(400, "Observation text is required and cannot be empty")
    ELSE IF Strip(obs_data.addedBy) = <<>>
    THEN Err(400, "addedBy field is required and cannot be empty")
    ELSE ValidateEntityId(Strip(obs_data.entityId), ents)

(* The cleaned rel_data that validate_relationship_creation returns.       *)
CleanRelationshipData(rel_data) ==
    [rel_data EXCEPT !.sourceId = Strip(rel_data.sourceId),
                     !.targetId = Strip(rel_data.targetId),
                     !.type = Strip(rel_data.type),
                     !.addedBy = Strip(rel_data.addedBy),
                     !.description = IF Truthy(rel_data.description)
                                     THEN Strip(rel_data.description)
                                     ELSE rel_data.description]

(* Mutant: the check against self-relationships is missing.               *)
ValidateRelationshipCreationNoSelfCheck(rel_data, ents, projs) ==
    LET source_id == Strip(rel_data.sourceId)
        target_id == Strip(rel_data.targetId)
    IN  IF source_id = <<>> THEN Err(400, "sourceId is required and cannot be empty")
        ELSE IF target_id = <<>> THEN Err(400, "targetId is required and cannot be empty")
        ELSE IF Strip(rel_data.type) = <<>>
             THEN Err(400, "Relationship type is required and cannot be empty")
        ELSE IF Strip(rel_data.addedBy) = <<>> THEN Err(400, "addedBy field is required and cannot be empty")
        ELSE IF ValidateEntityId(source_id, ents) # Ok
             THEN ValidateEntityId(source_id, ents)
        ELSE IF ValidateEntityId(target_id, ents) # Ok
             THEN ValidateEntityId(target_id, ents)
        ELSE IF rel_data.projectId # DefaultId
             THEN ValidateProjectId(rel_data.projectId, projs)
        ELSE Ok

ValidateRelationshipCreation(rel_data, ents, projs) ==
    LET source_id == Strip(rel_data.sourceId)
        target_id == Strip(rel_data.targetId)
    IN  IF source_id = <<>> THEN Err(400, "sourceId is required and cannot be empty")
        ELSE IF target_id = <<>> THEN Err(400, "targetId is required and cannot be empty")
        ELSE IF Strip(rel_data.type) = <<>>
             THEN Err(400, "Relationship type is required and cannot be empty")
        ELSE IF Strip(rel_data.addedBy) = <<>> THEN Err(400, "addedBy field is required and cannot be empty")
        ELSE IF ValidateEntityId(source_id, ents) # Ok
             THEN ValidateEntityId(source_id, ents)
        ELSE IF ValidateEntityId(target_id, ents) # Ok
             THEN ValidateEntityId(target_id, ents)
        ELSE IF source_id = target_id
             THEN Err(400, "Entity cannot have a relationship with itself")
        ELSE IF rel_data.projectId # DefaultId
             THEN ValidateProjectId(rel_data.projectId, projs)
        ELSE Ok

ValidateDuplicateRelationship(rel_data, rels) ==
    IF \E i \in DOMAIN rels :
           /\ rels[i].sourceId = rel_data.sourceId
           /\ rels[i].targetId = rel_data.targetId
           /\ Lower(rels[i].type) = Lower(rel_data.type)
           /\ rels[i].projectId = rel_data.projectId
    THEN Err(409, "Relationship already exists")
    ELSE Ok

(* The cleaned project_data that validate_project_creation returns.        *)
CleanProjectData(project_data) ==
    [project_data EXCEPT !.name = Strip(project_data.name),
                         !.description = IF Truthy(project_data.description)
                                         THEN Strip(project_data.description)
                                         ELSE project_data.description]

ValidateProjectCreation(project_data) ==
    IF Strip(project_data.name) = <<>> THEN Err(400, "Project name is required and cannot be empty")
    ELSE Ok

----------------------------------------------------------------------------
(* The snapshot file (metadata.json) and the construction of the store.    *)

(* The file: absent, not parseable as JSON, or a document of three lists.  *)
File(state, ents, rels, projs) ==
    [state |-> state, entities |-> ents, relationships |-> rels, projects |-> projs]

Missing == File("missing", <<>>, <<>>, <<>>)

Unreadable == File("unreadable", <<>>, <<>>, <<>>)

IsStr(v, min_length) == v # None /\ Len(v) >= min_length

(* Constructing an Entity, a Relationship or a Project from a dict: the    *)
(* pydantic constraints of models/schema.py.                               *)
EntityModelOk(d) ==
    /\ IsStr(d.name, 1) /\ IsStr(d.type, 1) /\ IsStr(d.description, 1)
    /\ IsStr(d.addedBy, 1) /\ IsStr(d.projectId, 0)

RelationshipModelOk(d) ==
    /\ IsStr(d.sourceId, 1) /\ IsStr(d.targetId, 1) /\ IsStr(d.type, 1)
    /\ IsStr(d.addedBy, 1) /\ IsStr(d.projectId, 0)

ProjectModelOk(d) == IsStr(d.name, 1)

ModelOk(kind, d) ==
    CASE kind = "entities" -> EntityModelOk(d)
      [] kind = "relationships" -> RelationshipModelOk(d)
      [] kind = "projects" -> ProjectModelOk(d)

(* One "for ... in data.get(section, [])" loop of _load_metadata: records  *)
(* are inserted until one fails to construct.                              *)
RECURSIVE LoadSection(_, _, _)
LoadSection(recs, kind, acc) ==
    IF recs = <<>> THEN [dict |-> acc, raised |-> FALSE]
    ELSE IF ~ModelOk(kind, Head(recs)) THEN [dict |-> acc, raised |-> TRUE]
    ELSE LoadSection(Tail(recs), kind, Put(acc, Head(recs)))

EmptyStore == [entities |-> <<>>, relationships |-> <<>>, projects |-> <<>>]

LoadMetadata(file) ==
    IF file.state # "document" THEN EmptyStore
    ELSE LET e == LoadSection(file.entities, "entities", <<>>)
             r == LoadSection(file.relationships, "relationships", <<>>)
             p == LoadSection(file.projects, "projects", <<>>)
         IN  [entities |-> e.dict,
              relationships |-> IF e.raised THEN <<>> ELSE r.dict,
              projects |-> IF e.raised \/ r.raised THEN <<>> ELSE p.dict]

DefaultProject == [id |-> DefaultId, name |-> DefaultName, description |-> None]

(* Mutant: the constructor does not add the default project.              *)
EnsureDefaultProjectNever(projs) == projs

EnsureDefaultProject(projs) ==
    IF DefaultId \notin Keys(projs) THEN Append(projs, DefaultProject) ELSE projs

(* What _save_metadata can come to, called after the in-memory mutation:   *)
(* the file is written; or, on a disk that fails, open() raises and the    *)
(* file is as it was, or json.dump raises and leaves the file cut short.   *)
SaveOutcomes ==
    IF env.disk = "ok" THEN {"written"} ELSE {"untouched", "truncated"}

SaveMetadata(saved) ==
    snapshot' = CASE saved = "written" ->
                         File("document", entities', relationships', projects')
                  [] saved = "untouched" -> snapshot
                  [] saved = "truncated" -> Unreadable

(* What _rebuild_video can come to: it returns at once without the memvid  *)
(* package, builds the video and reloads the retriever, or the encoder     *)
(* raises.                                                                 *)
RebuildOutcomes ==
    CASE env.memvid = "unavailable" -> {"skipped"}
      [] env.memvid = "ok" -> {"built"}
      [] env.memvid = "unreliable" -> {"built", "raised"}

RebuildVideo(built) ==
    retriever' = IF built = "built" THEN Retriever ELSE retriever

(* Mutant: _rebuild_video lets the exception of the encoder through.       *)
EscapesFromRebuild(method, outcome) ==
    method = "_rebuild_video" /\ outcome = "raised"

(* Mutant: _save_metadata lets the exception of the write through.         *)
EscapesFromSave(method, outcome) ==
    method = "_save_metadata" /\ outcome \in {"untouched", "truncated"}

(* Both methods wrap their body in try/except Exception and log: no        *)
(* outcome leaves them as an exception.                                    *)
Escapes(method, outcome) == FALSE

(* self._save_metadata() alone, as create_project ends.                    *)
Save(calls) ==
    \E saved \in SaveOutcomes :
        /\ SaveMetadata(saved)
        /\ retriever' = retriever
        /\ done' = calls \o <<"_save_metadata">>
                        \o (IF Escapes("_save_metadata", saved)
                            THEN <<"raise">> ELSE <<>>)

(* self._save_metadata(); await self._rebuild_video(), as the other        *)
(* mutating methods end.                                                   *)
SaveAndRebuild(calls) ==
    \E saved \in SaveOutcomes, built \in RebuildOutcomes :
        /\ SaveMetadata(saved)
        /\ IF Escapes("_save_metadata", saved)
           THEN /\ retriever' = retriever
                /\ done' = calls \o <<"_save_metadata", "raise">>
           ELSE /\ RebuildVideo(built)
                /\ done' = calls \o <<"_save_metadata", "_rebuild_video">>
                                \o (IF Escapes("_rebuild_video", built)
                                    THEN <<"raise">> ELSE <<>>)

(* The method returns, or the handler answers, before anything is assigned *)
(* or called.                                                              *)
NoEffect ==
    /\ UNCHANGED <<entities, relationships, projects, snapshot, issued, retriever>>
    /\ done' = <<>>

----------------------------------------------------------------------------
(* The response of the last request: the handler, its path parameter       *)
(* (None for a POST), the HTTP status and the detail of the error.         *)

Success == [status |-> 200, detail |-> "ok"]

(* pre is a history variable: the store as the last request found it, in   *)
(* the behaviours that start with a history (NoHistory: none is kept).     *)
NoHistory == <<>>

Raised(calls) == \E i \in DOMAIN calls : calls[i] = "raise"

(* An exception that leaves the store is answered with 500.                *)
Respond(op, id, response) ==
    /\ last' = IF Raised(done')
               THEN [op |-> op, id |-> id, status |-> 500, detail |-> "Exception"]
               ELSE [op |-> op, id |-> id, status |-> response.status,
                     detail |-> response.detail]
    /\ pre' = IF pre = NoHistory THEN NoHistory
              ELSE [entities |-> entities, relationships |-> relationships,
                    projects |-> projects]
    /\ UNCHANGED <<call, env, tasks>>

(* Mutant: the handler writes the snapshot before it raises.               *)
RejectAfterSave(op, id, response) ==
    /\ UNCHANGED <<entities, relationships, projects, issued, retriever>>
    /\ SaveMetadata("written")
    /\ done' = <<>>
    /\ Respond(op, id, response)

Reject(op, id, response) ==
    /\ NoEffect
    /\ Respond(op, id, response)

----------------------------------------------------------------------------
(* core/knowledge_graph.py: the mutating methods of MemvidKnowledgeGraph.  *)
(* _rebuild_video only reads the store.                                    *)

KgCreateEntity(entity) ==
    \E id \in IdOrUuid(entity.id, EntityIdPool) :
        /\ entities' = Put(entities, [entity EXCEPT !.id = id])
        /\ issued' = issued \cup {id}
        /\ UNCHANGED <<relationships, projects>>
        /\ SaveAndRebuild(UuidCalls(entity.id))

(* Mutant: the update also makes the updater the author.                   *)
SetAttrsAndAuthor(entity, updates) ==
    [key \in DOMAIN entity |->
        IF key \in DOMAIN updates THEN updates[key]
        ELSE IF key = "addedBy" THEN <<"x">> ELSE entity[key]]

(* setattr(entity, key, value) for every key of updates that the entity    *)
(* has; the model assigns without validating.                              *)
SetAttrs(entity, updates) ==
    [key \in DOMAIN entity |->
        IF key \in DOMAIN updates THEN updates[key] ELSE entity[key]]

(* found = FALSE: the method returns None.                                 *)
KgUpdateEntity(entity_id, updates, found) ==
    IF entity_id \notin Keys(entities)
    THEN /\ found = FALSE
         /\ NoEffect
    ELSE /\ found = TRUE
         /\ entities' = Put(entities, SetAttrs(Lookup(entities, entity_id), updates))
         /\ UNCHANGED <<relationships, projects, issued>>
         /\ SaveAndRebuild(<<>>)

(* Mutant: the observation is put before the stored ones.                  *)
KgAddObservationFirst(entity_id, text, added_by, observation_id) ==
    IF entity_id \notin Keys(entities)
    THEN /\ observation_id = None
         /\ NoEffect
    ELSE /\ observation_id \in Uuid4(ObservationIdPool)
         /\ entities' =
                Put(entities,
                    [Lookup(entities, entity_id) EXCEPT
                        !.observations =
                            <<[id |-> observation_id, text |-> text,
                               addedBy |-> added_by]>> \o @])
         /\ issued' = issued \cup {observation_id}
         /\ UNCHANGED <<relationships, projects>>
         /\ SaveAndRebuild(<<"uuid4">>)

(* observation_id is made of the time and of uuid4().hex: a value nobody   *)
(* has seen before.  observation_id = None: the method returns None.       *)
KgAddObservation(entity_id, text, added_by, observation_id) ==
    IF entity_id \notin Keys(entities)
    THEN /\ observation_id = None
         /\ NoEffect
    ELSE /\ observation_id \in Uuid4(ObservationIdPool)
         /\ entities' =
                Put(entities,
                    [Lookup(entities, entity_id) EXCEPT
                        !.observations =
                            Append(@, [id |-> observation_id, text |-> text,
                                       addedBy |-> added_by])])
         /\ issued' = issued \cup {observation_id}
         /\ UNCHANGED <<relationships, projects>>
         /\ SaveAndRebuild(<<"uuid4">>)

(* Mutant: the cascade looks at the source only.                           *)
IncidentAsSource(rel, entity_id) == rel.sourceId = entity_id

Incident(rel, entity_id) == rel.sourceId = entity_id \/ rel.targetId = entity_id

KgDeleteEntity(entity_id, success) ==
    IF entity_id \notin Keys(entities)
    THEN /\ success = FALSE
         /\ NoEffect
    ELSE /\ success = TRUE
         /\ entities' = DelKeys(entities, {entity_id})
         /\ relationships' =
                SelectSeq(relationships, LAMBDA rel : ~Incident(rel, entity_id))
         /\ UNCHANGED <<projects, issued>>
         /\ SaveAndRebuild(<<>>)

KgCreateRelationship(relationship) ==
    \E id \in IdOrUuid(relationship.id, RelationshipIdPool) :
        /\ relationships' = Put(relationships, [relationship EXCEPT !.id = id])
        /\ issued' = issued \cup {id}
        /\ UNCHANGED <<entities, projects>>
        /\ SaveAndRebuild(UuidCalls(relationship.id))

KgDeleteRelationship(relationship_id, success) ==
    IF relationship_id \in Keys(relationships)
    THEN /\ success = TRUE
         /\ relationships' = DelKeys(relationships, {relationship_id})
         /\ UNCHANGED <<entities, projects, issued>>
         /\ SaveAndRebuild(<<>>)
    ELSE /\ success = FALSE
         /\ NoEffect

KgCreateProject(project) ==
    \E id \in IdOrUuid(project.id, ProjectIdPool) :
        /\ projects' = Put(projects, [project EXCEPT !.id = id])
        /\ issued' = issued \cup {id}
        /\ UNCHANGED <<entities, relationships>>
        /\ Save(UuidCalls(project.id))

(* Mutant: no project is recognised as the default one.                   *)
IsDefaultProjectNever(project_id) == FALSE

IsDefaultProject(project_id) == project_id = DefaultId

InProject(x, project_id) == x.projectId = project_id

(* What delete_project does with project_id: it returns False, raises      *)
(* ValueError, or deletes and returns True.                                *)
KgDeleteProjectOutcome(project_id) ==
    IF project_id \notin Keys(projects) THEN "False"
    ELSE IF IsDefaultProject(project_id) THEN "ValueError"
    ELSE "True"

(* Mutant: the relationships of the project are not deleted.              *)
KgDeleteProjectKeepsRelationships(project_id, outcome) ==
    /\ outcome = KgDeleteProjectOutcome(project_id)
    /\ IF outcome = "True"
       THEN /\ projects' = DelKeys(projects, {project_id})
            /\ entities' = SelectSeq(entities, LAMBDA e : ~InProject(e, project_id))
            /\ UNCHANGED <<relationships, issued>>
            /\ SaveAndRebuild(<<>>)
       ELSE NoEffect

KgDeleteProject(project_id, outcome) ==
    /\ outcome = KgDeleteProjectOutcome(project_id)
    /\ IF outcome = "True"
       THEN /\ projects' = DelKeys(projects, {project_id})
            /\ entities' = SelectSeq(entities, LAMBDA e : ~InProject(e, project_id))
            /\ relationships' =
                   SelectSeq(relationships, LAMBDA r : ~InProject(r, project_id))
            /\ UNCHANGED issued
            /\ SaveAndRebuild(<<>>)
       ELSE NoEffect

----------------------------------------------------------------------------
(* api/entities.py.  XResponse is what the handler X answers in the        *)
(* current state; the handler calls the core only on Success.              *)

AllowedFields == {"name", "type", "description", "projectId"}

TextFields == {"name", "type", "description"}

CreateEntityResponse(entity) ==
    IF ValidateEntityCreation(entity, projects) # Ok
    THEN ValidateEntityCreation(entity, projects)
    ELSE IF ValidateDuplicateEntity(CleanEntityData(entity), entities) # Ok
    THEN ValidateDuplicateEntity(CleanEntityData(entity), entities)
    ELSE Success

CreateEntity(entity) ==
    IF CreateEntityResponse(entity) # Success
    THEN Reject("create_entity", None, CreateEntityResponse(entity))
    ELSE /\ KgCreateEntity(CleanEntityData(entity))
         /\ Respond("create_entity", None, Success)

(* updates[field] = value.strip() for the text fields that are not None.   *)
CleanUpdates(updates) ==
    [field \in DOMAIN updates |->
        IF field \in TextFields /\ updates[field] # None
        THEN Strip(updates[field])
        ELSE updates[field]]

(* Mutant: the project of the update is not looked up.                     *)
UpdateEntityResponseAnyProject(entity_id, updates) ==
    IF ValidateEntityId(entity_id, entities) # Ok
    THEN ValidateEntityId(entity_id, entities)
    ELSE IF DOMAIN updates \ AllowedFields # {} THEN Err(400, "Invalid fields")
    ELSE IF \E field \in DOMAIN updates \cap TextFields :
                updates[field] # None /\ Strip(updates[field]) = <<>>
         THEN Err(400, "must be a non-empty string")
    ELSE Success

UpdateEntityResponse(entity_id, updates) ==
    IF ValidateEntityId(entity_id, entities) # Ok
    THEN ValidateEntityId(entity_id, entities)
    ELSE IF DOMAIN updates \ AllowedFields # {} THEN Err(400, "Invalid fields")
    ELSE IF \E field \in DOMAIN updates \cap TextFields :
                updates[field] # None /\ Strip(updates[field]) = <<>>
         THEN Err(400, "must be a non-empty string")
    ELSE IF /\ "projectId" \in DOMAIN updates
            /\ updates["projectId"] # DefaultId
            /\ ValidateProjectId(updates["projectId"], projects) # Ok
         THEN ValidateProjectId(updates["projectId"], projects)
    ELSE Success

UpdateEntity(entity_id, updates) ==
    IF UpdateEntityResponse(entity_id, updates) # Success
    THEN Reject("update_entity", entity_id, UpdateEntityResponse(entity_id, updates))
    ELSE \E found \in BOOLEAN :
            /\ KgUpdateEntity(entity_id, CleanUpdates(updates), found)
            /\ Respond("update_entity", entity_id,
                       IF found THEN Success ELSE Err(404, "Entity not found"))

DeleteEntity(entity_id) ==
    IF ValidateEntityId(entity_id, entities) # Ok
    THEN Reject("delete_entity", entity_id, ValidateEntityId(entity_id, entities))
    ELSE \E success \in BOOLEAN :
            /\ KgDeleteEntity(entity_id, success)
            /\ Respond("delete_entity", entity_id,
                       IF success THEN Success ELSE Err(404, "Entity not found"))

(* POST /api/entities/{entity_id}/observations: the body's entityId is     *)
(* replaced by the path parameter, which the validator trims and the call  *)
(* of the store does not.                                                  *)
(* The call of the store and the answer with the obs_id it returned.       *)
AddObservationReturns(entity_id, obs_data, obs_id) ==
    /\ KgAddObservation(entity_id, obs_data.text, obs_data.addedBy, obs_id)
    /\ Respond("add_observation", entity_id,
               IF Truthy(obs_id) THEN Success ELSE Err(404, "Entity not found"))

AddObservation(entity_id, observation) ==
    LET obs_data == [observation EXCEPT !.entityId = entity_id]
    IN  IF ValidateObservationCreation(obs_data, entities) # Ok
        THEN Reject("add_observation", entity_id,
                    ValidateObservationCreation(obs_data, entities))
        ELSE \E obs_id \in ObservationIdPool \cup {None} :
                AddObservationReturns(entity_id, CleanObservationData(obs_data),
                                      obs_id)

----------------------------------------------------------------------------
(* api/relationships.py                                                    *)

CreateRelationshipResponse(relationship) ==
    IF ValidateRelationshipCreation(relationship, entities, projects) # Ok
    THEN ValidateRelationshipCreation(relationship, entities, projects)
    ELSE IF ValidateDuplicateRelationship(CleanRelationshipData(relationship),
                                          relationships) # Ok
    THEN ValidateDuplicateRelationship(CleanRelationshipData(relationship),
                                       relationships)
    ELSE Success

CreateRelationship(relationship) ==
    IF CreateRelationshipResponse(relationship) # Success
    THEN Reject("create_relationship", None, CreateRelationshipResponse(relationship))
    ELSE /\ KgCreateRelationship(CleanRelationshipData(relationship))
         /\ Respond("create_relationship", None, Success)

DeleteRelationshipResponse(relationship_id) ==
    IF ~Truthy(relationship_id) \/ Strip(relationship_id) = <<>>
    THEN Err(400, "Relationship ID is required")
    ELSE IF relationship_id \notin Keys(relationships)
    THEN Err(404, "Relationship not found")
    ELSE Success

DeleteRelationship(relationship_id) ==
    IF DeleteRelationshipResponse(relationship_id) # Success
    THEN Reject("delete_relationship", relationship_id,
                DeleteRelationshipResponse(relationship_id))
    ELSE \E success \in BOOLEAN :
            /\ KgDeleteRelationship(relationship_id, success)
            /\ Respond("delete_relationship", relationship_id,
                       IF success THEN Success
                       ELSE Err(404, "Relationship not found"))

----------------------------------------------------------------------------
(* api/projects.py                                                         *)

(* Mutant: the names are compared as they are written.                     *)
CreateProjectResponseCaseSensitive(project) ==
    IF ValidateProjectCreation(project) # Ok THEN ValidateProjectCreation(project)
    ELSE IF \E i \in DOMAIN projects :
                projects[i].name = CleanProjectData(project).name
         THEN Err(409, "Project already exists")
    ELSE Success

CreateProjectResponse(project) ==
    IF ValidateProjectCreation(project) # Ok THEN ValidateProjectCreation(project)
    ELSE IF \E i \in DOMAIN projects :
                Lower(projects[i].name) = Lower(CleanProjectData(project).name)
         THEN Err(409, "Project already exists")
    ELSE Success

CreateProject(project) ==
    IF CreateProjectResponse(project) # Success
    THEN Reject("create_project", None, CreateProjectResponse(project))
    ELSE /\ KgCreateProject(CleanProjectData(project))
         /\ Respond("create_project", None, Success)

(* The checks of the handler before it calls the core.                     *)
DeleteProjectResponse(project_id) ==
    IF ~Truthy(project_id) \/ Strip(project_id) = <<>>
    THEN Err(400, "Project ID is required")
    ELSE IF IsDefaultProject(Strip(project_id))
    THEN Err(400, "Cannot delete the default project")
    ELSE IF Strip(project_id) \notin Keys(projects) THEN Err(404, "Project not found")
    ELSE Success

(* The handler answers the core's ValueError with 400 and its message.     *)
DeleteProject(project_id) ==
    IF DeleteProjectResponse(project_id) # Success
    THEN Reject("delete_project", project_id, DeleteProjectResponse(project_id))
    ELSE \E outcome \in {"False", "ValueError", "True"} :
            /\ KgDeleteProject(Strip(project_id), outcome)
            /\ Respond("delete_project", project_id,
                       CASE outcome = "True" -> Success
                         [] outcome = "False" -> Err(404, "Project not found")
                         [] outcome = "ValueError" ->
                                Err(400, "Cannot delete the default project."))

----------------------------------------------------------------------------
(* The requests the model issues.                                          *)

Blank == <<" ">>

NameInputs == {<<"a">>, <<" ", "A">>}

ProjectIdInputs == {DefaultId} \cup ProjectIdPool

Entity(id, name, type, description, addedBy, projectId) ==
    [id |-> id, name |-> name, type |-> type, description |-> description,
     observations |-> <<>>, addedBy |-> addedBy, projectId |-> projectId]

(* Bodies of POST /api/entities: the well-formed ones, and one for every   *)
(* check of validate_entity_creation.                                      *)
CreateEntityInputs ==
    {Entity(id, name, <<"t">>, <<"d", " ">>, <<"u">>, projectId) :
        id \in EntityIdPool \cup {None}, name \in NameInputs,
        projectId \in ProjectIdInputs}
    \cup {Entity(None, Blank, <<"t">>, <<"d">>, <<"u">>, DefaultId),
          Entity(None, <<"a">>, Blank, <<"d">>, <<"u">>, DefaultId),
          Entity(None, <<"a">>, <<"t">>, Blank, <<"u">>, DefaultId),
          Entity(None, <<"a">>, <<"t">>, <<"d">>, Blank, DefaultId),
          Entity(None, <<"a">>, <<"t">>, <<"d">>, <<"u">>, <<>>)}

EntityIdInputs == EntityIdPool

(* Bodies of PUT /api/entities/{entity_id}.                                *)
UpdateInputs ==
    {[name |-> v] : v \in NameInputs \cup {None, Blank}}
    \cup {[projectId |-> v] : v \in ProjectIdInputs \cup {None}}
    \cup {[id |-> <<"e", "1">>], [name |-> <<"a">>, projectId |-> DefaultId]}

Relationship(id, sourceId, targetId, type, addedBy, projectId) ==
    [id |-> id, sourceId |-> sourceId, targetId |-> targetId, type |-> type,
     description |-> None, addedBy |-> addedBy, projectId |-> projectId]

RelationshipTypeInputs == {<<"r">>, <<"R", " ">>}

(* Bodies of POST /api/relationships: the well-formed ones, and one for    *)
(* every check of validate_relationship_creation.                          *)
CreateRelationshipInputs ==
    {Relationship(id, sourceId, targetId, type, <<"u">>, DefaultId) :
        id \in RelationshipIdPool \cup {None},
        sourceId \in EntityIdPool, targetId \in EntityIdPool,
        type \in RelationshipTypeInputs}
    \cup {Relationship(None, <<"e", "1">>, <<"e", "2">>, <<"r">>, <<"u">>, projectId) :
            projectId \in ProjectIdPool}
    \cup {Relationship(None, Blank, <<"e", "1">>, <<"r">>, <<"u">>, DefaultId),
          Relationship(None, <<"e", "1">>, Blank, <<"r">>, <<"u">>, DefaultId),
          Relationship(None, <<"e", "1">>, <<"e", "2">>, Blank, <<"u">>, DefaultId),
          Relationship(None, <<"e", "1">>, <<"e", "2">>, <<"r">>, Blank, DefaultId),
          Relationship(None, <<" ", "e", "1">>, <<"e", "2", " ">>, <<"r">>, <<"u">>,
                       DefaultId),
          Relationship(None, <<"e", "1">>, <<"e", "2">>, <<"r">>, <<"u">>, <<>>)}

RelationshipIdInputs == RelationshipIdPool \cup {Blank}

ProjectNameInputs == {<<" ", "P">>, Blank}

(* Bodies of POST /api/projects.                                           *)
CreateProjectInputs ==
    [id : ProjectIdPool \cup {None, DefaultId}, name : ProjectNameInputs,
     description : {None}]

DeleteProjectInputs == ProjectIdPool \cup {DefaultId, Blank}

----------------------------------------------------------------------------
(* The snapshot files the service is started on: none, an unreadable one,  *)
(* an empty document, and one the service wrote in an earlier run.         *)

WrittenSnapshot ==
    File("document",
         <<[id |-> <<"e", "1">>, name |-> <<"a">>, type |-> <<"t">>,
            description |-> <<"d">>, observations |-> <<>>,
            addedBy |-> <<"u">>, projectId |-> <<"p", "1">>]>>,
         <<>>,
         <<DefaultProject,
           [id |-> <<"p", "1">>, name |-> <<"P">>, description |-> None]>>)

EmptyDocument == File("document", <<>>, <<>>, <<>>)

InitSnapshots == {Missing, Unreadable, EmptyDocument, WrittenSnapshot}

(* No read request is being served.                                        *)
Idle == [op |-> "idle", returned |-> TRUE]

(* MemvidKnowledgeGraph.__init__, up to the making of the retriever.       *)
Construct(file) ==
        /\ call = Idle
        /\ snapshot = file
        /\ entities = LoadMetadata(file).entities
        /\ relationships = LoadMetadata(file).relationships
        /\ projects = EnsureDefaultProject(LoadMetadata(file).projects)
        /\ issued = Keys(LoadMetadata(file).entities)
                        \cup Keys(LoadMetadata(file).relationships)
                        \cup Keys(EnsureDefaultProject(LoadMetadata(file).projects))
        /\ last = [op |-> "init", id |-> None, status |-> 0, detail |-> "ok"]
        /\ done = <<>>
        /\ tasks = <<>>

Environment(memvid, disk) == [memvid |-> memvid, disk |-> disk]

(* The service runs without the memvid package (MEMVID_AVAILABLE is       *)
(* False): no retriever is made, and _rebuild_video returns at once.  The  *)
(* metadata file can be written.                                           *)
Plain == Environment("unavailable", "ok")

Init ==
    \E file \in InitSnapshots :
        Construct(file) /\ pre = NoHistory /\ retriever = None /\ env = Plain

Next ==
    \/ \E entity \in CreateEntityInputs : CreateEntity(entity)
    \/ \E entity_id \in EntityIdInputs, updates \in UpdateInputs :
            UpdateEntity(entity_id, updates)
    \/ \E entity_id \in EntityIdInputs : DeleteEntity(entity_id)
    \/ \E relationship \in CreateRelationshipInputs : CreateRelationship(relationship)
    \/ \E relationship_id \in RelationshipIdInputs : DeleteRelationship(relationship_id)
    \/ \E project \in CreateProjectInputs : CreateProject(project)
    \/ \E project_id \in DeleteProjectInputs : DeleteProject(project_id)

Spec == Init /\ [][Next]_vars

----------------------------------------------------------------------------
(* A second set of requests, for the cascades: a chain of entities         *)
(* ("e1" in either project, the others in the default one), relationships  *)
(* along the chain in either project, and the history variable recorded.   *)

GraphNames == <<"a", "b", "c", "d">>

GraphEntityId(n) == <<"e", Digits[n]>>

GraphCreateEntityInputs ==
    {Entity(GraphEntityId(n), <<GraphNames[n]>>, <<"t">>, <<"d">>, <<"u">>, projectId) :
        n \in 1..NumGraphEntityIds, projectId \in {DefaultId}}
    \cup {Entity(GraphEntityId(1), <<GraphNames[1]>>, <<"t">>, <<"d">>, <<"u">>,
                 projectId) : projectId \in ProjectIdPool}

GraphEntityIdInputs == {GraphEntityId(n) : n \in 1..NumGraphEntityIds}

GraphUpdateInputs == {[projectId |-> v] : v \in ProjectIdInputs}

GraphRelationshipIdInputs ==
    {<<"r", Digits[n]>> : n \in 1..NumGraphRelationshipIds}

GraphCreateRelationshipInputs ==
    {Relationship(id, GraphEntityId(n), GraphEntityId(n + 1), <<"r">>, <<"u">>,
                  projectId) :
        id \in GraphRelationshipIdInputs, n \in 1..(NumGraphEntityIds - 1),
        projectId \in ProjectIdInputs}
    \cup {Relationship(id, GraphEntityId(1), GraphEntityId(1), <<"r">>, <<"u">>,
                       DefaultId) : id \in GraphRelationshipIdInputs}

GraphCreateProjectInputs ==
    {[id |-> id, name |-> <<"P">>, description |-> None] : id \in ProjectIdPool}

InitGraph ==
    /\ Construct(Missing)
    /\ retriever = None
    /\ env = Plain
    /\ pre = [entities |-> entities, relationships |-> relationships,
              projects |-> projects]

NextGraph ==
    \/ \E entity \in GraphCreateEntityInputs : CreateEntity(entity)
    \/ \E updates \in GraphUpdateInputs : UpdateEntity(GraphEntityId(1), updates)
    \/ \E entity_id \in GraphEntityIdInputs : DeleteEntity(entity_id)
    \/ \E relationship \in GraphCreateRelationshipInputs :
            CreateRelationship(relationship)
    \/ \E relationship_id \in GraphRelationshipIdInputs :
            DeleteRelationship(relationship_id)
    \/ \E project \in GraphCreateProjectInputs : CreateProject(project)
    \/ \E project_id \in DeleteProjectInputs : DeleteProject(project_id)

SpecGraph == InitGraph /\ [][NextGraph]_vars

----------------------------------------------------------------------------
(* The claims.                                                             *)

(* C1: in every reachable state of the store, whatever snapshot it was     *)
(* constructed from and whatever requests followed, the projects mapping   *)
(* contains the project "default".                                         *)
C1_DefaultProjectExists == DefaultId \in Keys(projects)

(* A project has just been deleted and "default" is still there.           *)
C1_Witness ==
    /\ last.op = "delete_project" /\ last.status = 200
    /\ DefaultId \in Keys(projects)

(* C2: in every state deleting "default" is refused, by the handler (400,  *)
(* "Cannot delete the default project") and by the core (ValueError), and  *)
(* a step that answers such a request leaves entities, relationships and   *)
(* projects as they were.                                                  *)
C2_DeleteDefaultRejected ==
    /\ [](/\ DeleteProjectResponse(DefaultId)
                = Err(400, "Cannot delete the default project")
          /\ KgDeleteProjectOutcome(DefaultId) = "ValueError")
    /\ [][(last'.op = "delete_project" /\ Strip(last'.id) = DefaultId)
            => /\ last'.status = 400
               /\ last'.detail = "Cannot delete the default project"
               /\ entities' = entities
               /\ relationships' = relationships
               /\ projects' = projects]_vars

(* The deletion of "default" has just been refused on a populated store.   *)
C2_Witness ==
    /\ last.op = "delete_project" /\ last.id = DefaultId /\ last.status = 400
    /\ entities # <<>> /\ relationships # <<>> /\ Len(projects) > 1

(* C3: deleteEntity(id) on an existing entity succeeds and removes that    *)
(* entity and exactly the relationships whose sourceId or targetId is id:  *)
(* the other entities, the other relationships and the projects are as     *)
(* the request found them, in the same order.                              *)
C3_DeleteEntityCascade ==
    (last.op = "delete_entity" /\ last.id \in Keys(pre.entities))
        => /\ last.status = 200
           /\ entities = SelectSeq(pre.entities, LAMBDA e : e.id # last.id)
           /\ relationships =
                  SelectSeq(pre.relationships,
                            LAMBDA r : r.sourceId # last.id /\ r.targetId # last.id)
           /\ projects = pre.projects

(* An entity was deleted that was the target of one relationship, while   *)
(* another relationship, between two other entities, was stored.           *)
C3_Witness ==
    /\ last.op = "delete_entity" /\ last.status = 200
    /\ Len(entities) = 2
    /\ \E i, j \in DOMAIN pre.relationships :
           /\ pre.relationships[i].targetId = last.id
           /\ pre.relationships[j].sourceId # last.id
           /\ pre.relationships[j].targetId # last.id

(* C4: a createEntity request that passes the field validation and whose   *)
(* (name, type, project) equals, ignoring the case of name and type, that  *)
(* of a stored entity is answered with 409.                                *)
SameEntityKey(entity, existing) ==
    /\ existing.name # None /\ existing.type # None
    /\ Lower(existing.name) = Lower(Strip(entity.name))
    /\ Lower(existing.type) = Lower(Strip(entity.type))
    /\ existing.projectId = entity.projectId

C4_DuplicateEntityConflict ==
    \A entity \in CreateEntityInputs :
        (/\ ValidateEntityCreation(entity, projects) = Ok
         /\ \E i \in DOMAIN entities : SameEntityKey(entity, entities[i]))
            => CreateEntityResponse(entity).status = 409

(* C5: no two stored entities have the same (lowercased name, lowercased   *)
(* type, projectId).                                                       *)
C5_EntityKeysUnique ==
    \A i, j \in DOMAIN entities :
        (i # j /\ entities[i].name # None /\ entities[i].type # None)
            => ~SameEntityKey(entities[i], entities[j])

(* C6: name, type, description and addedBy of every stored entity are      *)
(* strings that are non-empty after trimming.                              *)
NonEmptyText(v) == v # None /\ Strip(v) # <<>>

C6_EntityTextNonEmpty ==
    \A i \in DOMAIN entities :
        /\ NonEmptyText(entities[i].name) /\ NonEmptyText(entities[i].type)
        /\ NonEmptyText(entities[i].description) /\ NonEmptyText(entities[i].addedBy)

(* The required fields of a createRelationship request are present.        *)
RelationshipFieldsPresent(rel) ==
    /\ Strip(rel.sourceId) # <<>> /\ Strip(rel.targetId) # <<>>
    /\ Strip(rel.type) # <<>> /\ Strip(rel.addedBy) # <<>>

(* C7: no stored relationship has sourceId = targetId, a createRelationship *)
(* request with sourceId = targetId is not accepted in any state, and the  *)
(* step that answers it inserts nothing.                                   *)
C7_NoSelfLoops ==
    /\ [](/\ \A i \in DOMAIN relationships :
                 relationships[i].sourceId # relationships[i].targetId
          /\ \A rel \in CreateRelationshipInputs :
                 Strip(rel.sourceId) = Strip(rel.targetId)
                     => CreateRelationshipResponse(rel).status \in {400, 404})
    /\ [][(/\ last'.op = "create_relationship"
           /\ last'.detail = "Entity cannot have a relationship with itself")
            => relationships' = relationships]_vars

(* A self-relationship on a stored entity has just been refused, with a    *)
(* relationship in the store.                                              *)
C7_Witness ==
    /\ last.op = "create_relationship" /\ last.status = 400
    /\ last.detail = "Entity cannot have a relationship with itself"
    /\ relationships # <<>>

(* C8: createRelationship succeeds only if sourceId and targetId (as the   *)
(* validator reads them, trimmed) are identifiers of stored entities; a    *)
(* request with its required fields present and an absent endpoint is      *)
(* answered 404 "Entity not found", and that step leaves the relationships *)
(* as they were.                                                           *)
C8_EndpointsMustExist ==
    /\ [](\A rel \in CreateRelationshipInputs :
            /\ CreateRelationshipResponse(rel) = Success
                   => /\ Strip(rel.sourceId) \in Keys(entities)
                      /\ Strip(rel.targetId) \in Keys(entities)
            /\ (/\ RelationshipFieldsPresent(rel)
                /\ \/ Strip(rel.sourceId) \notin Keys(entities)
                   \/ Strip(rel.targetId) \notin Keys(entities))
                   => CreateRelationshipResponse(rel) = Err(404, "Entity not found"))
    /\ [][(last'.op = "create_relationship" /\ last'.status = 404)
            => relationships' = relationships]_vars

(* A relationship has just been refused for an absent endpoint while the   *)
(* other endpoint is stored.                                               *)
C8_Witness ==
    /\ last.op = "create_relationship" /\ last.status = 404
    /\ last.detail = "Entity not found"
    /\ Len(entities) = 1

(* C9: a createRelationship request with its required fields present whose *)
(* (sourceId, targetId, lowercased type, projectId) equals that of a       *)
(* stored relationship is answered with 409, and no two stored             *)
(* relationships share that key.                                           *)
SameRelationshipKey(rel, existing) ==
    /\ existing.sourceId = Strip(rel.sourceId)
    /\ existing.targetId = Strip(rel.targetId)
    /\ Lower(existing.type) = Lower(Strip(rel.type))
    /\ existing.projectId = rel.projectId

C9_DuplicateRelationshipConflict ==
    /\ \A rel \in CreateRelationshipInputs :
           (/\ RelationshipFieldsPresent(rel)
            /\ \E i \in DOMAIN relationships :
                   SameRelationshipKey(rel, relationships[i]))
               => CreateRelationshipResponse(rel).status = 409
    /\ \A i, j \in DOMAIN relationships :
           i # j => ~SameRelationshipKey(relationships[i], relationships[j])

(* C10: deleteProject(p) for a stored project p other than "default"       *)
(* succeeds and removes p, the entities whose projectId is p and the       *)
(* relationships whose projectId is p, and nothing else: what remains is   *)
(* as the request found it, in the same order.                             *)
C10_DeleteProjectCascade ==
    (/\ last.op = "delete_project"
     /\ Strip(last.id) \in Keys(pre.projects)
     /\ Strip(last.id) # DefaultId)
        => /\ last.status = 200
           /\ projects = SelectSeq(pre.projects, LAMBDA p : p.id # Strip(last.id))
           /\ entities =
                  SelectSeq(pre.entities, LAMBDA e : e.projectId # Strip(last.id))
           /\ relationships =
                  SelectSeq(pre.relationships,
                            LAMBDA r : r.projectId # Strip(last.id))

(* A project was deleted that held one of two entities and one of two      *)
(* relationships.                                                          *)
C10_Witness ==
    /\ last.op = "delete_project" /\ last.status = 200
    /\ Len(pre.entities) > Len(entities) /\ entities # <<>>
    /\ Len(pre.relationships) > Len(relationships) /\ relationships # <<>>

----------------------------------------------------------------------------
(* main.py: find_related_entities.  The handler is followed step by step:  *)
(* call.stack holds the activations of traverse, each with its arguments   *)
(* and the position pc of its loop over kg.relationships (0: the           *)
(* activation has not passed its first test yet).  call.expanded lists     *)
(* the entities whose relationships were scanned, in order.                *)

NumTraverseEntityIds == 3

MaxTraverseRelationships == 3

FindRelatedResponse(entity_id, direction, relationship_type, depth, project_id) ==
    IF ValidateEntityId(entity_id, entities) # Ok
    THEN ValidateEntityId(entity_id, entities)
    ELSE IF /\ Truthy(project_id) /\ project_id # DefaultId
            /\ ValidateProjectId(project_id, projects) # Ok
    THEN ValidateProjectId(project_id, projects)
    ELSE IF direction \notin {"outgoing", "incoming", "both"}
    THEN Err(400, "Direction must be 'outgoing', 'incoming', or 'both'")
    ELSE IF ~(1 <= depth /\ depth <= 3)
    THEN Err(400, "Depth must be between 1 and 3")
    ELSE Success

(* The test `current_entity_id in visited'.                                *)
AlreadyVisitedNever(current_entity_id, visited) == FALSE

AlreadyVisited(current_entity_id, visited) == current_entity_id \in visited

(* target_entity_id and rel_direction for one relationship.                *)
TargetOf(rel, current_entity_id, direction) ==
    IF direction \in {"outgoing", "both"} /\ rel.sourceId = current_entity_id
    THEN [target_entity_id |-> rel.targetId, rel_direction |-> "outgoing"]
    ELSE IF direction \in {"incoming", "both"} /\ rel.targetId = current_entity_id
    THEN [target_entity_id |-> rel.sourceId, rel_direction |-> "incoming"]
    ELSE [target_entity_id |-> None, rel_direction |-> "None"]

Activation(current_entity_id, current_depth) ==
    [current_entity_id |-> current_entity_id, current_depth |-> current_depth,
     pc |-> 0]

(* One step of the innermost activation of traverse.                       *)
TraverseStep(c) ==
    LET top == c.stack[Len(c.stack)]
        callers == SubSeq(c.stack, 1, Len(c.stack) - 1)
        continue == Append(callers, [top EXCEPT !.pc = @ + 1])
    IN  IF top.pc = 0
        THEN IF \/ top.current_depth > c.depth
                \/ AlreadyVisited(top.current_entity_id, c.visited)
             THEN [c EXCEPT !.stack = callers]
             ELSE [c EXCEPT !.visited = @ \cup {top.current_entity_id},
                            !.expanded = Append(@, top.current_entity_id),
                            !.stack = continue]
        ELSE IF top.pc > Len(relationships)
        THEN [c EXCEPT !.stack = callers]
        ELSE LET rel == relationships[top.pc]
                 found == TargetOf(rel, top.current_entity_id, c.direction)
             IN  IF Truthy(c.project_id) /\ rel.projectId # c.project_id
                 THEN [c EXCEPT !.stack = continue]
                 ELSE IF Truthy(c.relationship_type) /\ rel.type # c.relationship_type
                 THEN [c EXCEPT !.stack = continue]
                 ELSE IF /\ Truthy(found.target_entity_id)
                         /\ found.target_entity_id \in Keys(entities)
                 THEN [c EXCEPT
                         !.results =
                             IF found.target_entity_id # c.entity_id
                             THEN Append(@, [entity |-> found.target_entity_id,
                                             relationship |-> rel.id,
                                             direction |-> found.rel_direction,
                                             depth |-> top.current_depth])
                             ELSE @,
                         !.stack =
                             IF top.current_depth < c.depth
                             THEN Append(continue,
                                         Activation(found.target_entity_id,
                                                    top.current_depth + 1))
                             ELSE continue]
                 ELSE [c EXCEPT !.stack = continue]

(* Mutant: the results are returned as collected.                          *)
UniqueResultsAll(results, seen_entities) == results

(* The loop that removes duplicates: the first result of every entity.     *)
RECURSIVE UniqueResults(_, _)
UniqueResults(results, seen_entities) ==
    IF results = <<>> THEN <<>>
    ELSE IF Head(results).entity \in seen_entities
    THEN UniqueResults(Tail(results), seen_entities)
    ELSE <<Head(results)>>
             \o UniqueResults(Tail(results),
                              seen_entities \cup {Head(results).entity})

(* Mutant: the read ends with a write of the snapshot.                     *)
ReadOnlyButSaved ==
    /\ UNCHANGED <<entities, relationships, projects, issued, last, pre, retriever,
                   env, done, tasks>>
    /\ SaveMetadata("written")

(* A read request assigns nothing of the store and calls no _save_metadata. *)
ReadOnly ==
    UNCHANGED <<entities, relationships, projects, snapshot, issued, last, pre,
                retriever, env, done, tasks>>

(* The handler up to the call traverse(entity_id, 1).                      *)
FindRelatedEntities(entity_id, direction, relationship_type, depth, project_id) ==
    /\ call.returned
    /\ LET response == FindRelatedResponse(entity_id, direction,
                                           relationship_type, depth, project_id)
       IN  call' = IF response # Success
                   THEN [op |-> "find_related", returned |-> TRUE,
                         status |-> response.status, detail |-> response.detail]
                   ELSE [op |-> "find_related", returned |-> FALSE,
                         entity_id |-> entity_id, direction |-> direction,
                         relationship_type |-> relationship_type,
                         depth |-> depth, project_id |-> project_id,
                         stack |-> <<Activation(entity_id, 1)>>,
                         visited |-> {}, results |-> <<>>, expanded |-> <<>>,
                         status |-> 200, unique_results |-> <<>>]
    /\ ReadOnly

Traverse ==
    /\ call.op = "find_related" /\ ~call.returned /\ call.stack # <<>>
    /\ call' = TraverseStep(call)
    /\ ReadOnly

(* traverse has returned: the duplicates are removed and the list is the   *)
(* response.                                                               *)
ReturnRelated ==
    /\ call.op = "find_related" /\ ~call.returned /\ call.stack = <<>>
    /\ call' = [call EXCEPT !.returned = TRUE,
                            !.unique_results = UniqueResults(call.results, {})]
    /\ ReadOnly

(* The graphs the traversal is run on: the entities "e1".."e3" (or         *)
(* without the last, which a deleteProject has removed while relationships *)
(* of the default project still name it), and up to three relationships    *)
(* between different entities, no two with the same endpoints in the same  *)
(* order; the last one is of either type and either project.               *)
TraverseEntityIds == {GraphEntityId(n) : n \in 1..NumTraverseEntityIds}

TraverseEntities(n) ==
    [i \in 1..n |-> Entity(GraphEntityId(i), <<GraphNames[i]>>, <<"t">>, <<"d">>,
                           <<"u">>, DefaultId)]

TraverseEdges == {e \in TraverseEntityIds \X TraverseEntityIds : e[1] # e[2]}

TraverseEdgeSeqs ==
    UNION {{es \in [1..n -> TraverseEdges] :
                \A i, j \in 1..n : i # j => es[i] # es[j]} :
           n \in 0..MaxTraverseRelationships}

TraverseKinds ==
    {<<(<<"r">>), DefaultId>>, <<(<<"s">>), DefaultId>>} \cup
    {<<(<<"r">>), project_id>> : project_id \in ProjectIdPool}

TraverseGraphs ==
    {[i \in DOMAIN es |->
         Relationship(<<"r", Digits[i]>>, es[i][1], es[i][2],
                      IF i = Len(es) THEN kind[1] ELSE <<"r">>, <<"u">>,
                      IF i = Len(es) THEN kind[2] ELSE DefaultId)] :
        es \in TraverseEdgeSeqs, kind \in TraverseKinds}

AbsentId == <<"x">>

FindRelatedArgs(entity_id, direction, relationship_type, depth, project_id) ==
    [entity_id |-> entity_id, direction |-> direction,
     relationship_type |-> relationship_type, depth |-> depth,
     project_id |-> project_id]

(* The requests: from "e1", in every direction, to every allowed depth,    *)
(* unfiltered or with one filter; and one for every check of the handler.  *)
FindRelatedInputs ==
    {FindRelatedArgs(GraphEntityId(1), direction, filter[1], depth, filter[2]) :
        direction \in {"outgoing", "incoming", "both"}, depth \in 1..3,
        filter \in {<<None, None>>, <<(<<"r">>), None>>, <<None, DefaultId>>}
                       \cup {<<None, project_id>> : project_id \in ProjectIdPool}}
    \cup {FindRelatedArgs(AbsentId, "both", None, 1, None),
          FindRelatedArgs(GraphEntityId(1), "both", None, 1, AbsentId),
          FindRelatedArgs(GraphEntityId(1), "sideways", None, 1, None),
          FindRelatedArgs(GraphEntityId(1), "both", None, 0, None),
          FindRelatedArgs(GraphEntityId(1), "both", None, 4, None)}

InitTraverse ==
    \E n \in {NumTraverseEntityIds - 1, NumTraverseEntityIds},
       graph \in TraverseGraphs :
        /\ entities = TraverseEntities(n)
        /\ relationships = graph
        /\ projects = <<DefaultProject>> \o
                      [i \in 1..NumProjectIds |->
                          [id |-> <<"p", Digits[i]>>, name |-> <<"P", Digits[i]>>,
                           description |-> None]]
        /\ snapshot = File("document", entities, relationships, projects)
        /\ issued = Keys(entities) \cup Keys(relationships) \cup Keys(projects)
        /\ last = [op |-> "init", id |-> None, status |-> 0, detail |-> "ok"]
        /\ pre = NoHistory
        /\ retriever = None
        /\ call = Idle
        /\ env = Plain
        /\ done = <<>>
        /\ tasks = <<>>

NextTraverse ==
    \/ \E args \in FindRelatedInputs :
            FindRelatedEntities(args.entity_id, args.direction,
                                args.relationship_type, args.depth,
                                args.project_id)
    \/ Traverse
    \/ ReturnRelated

(* The handler is synchronous code on the event loop: once entered it runs *)
(* to its return.                                                          *)
SpecTraverse ==
    InitTraverse /\ [][NextTraverse]_vars
        /\ WF_vars(Traverse) /\ WF_vars(ReturnRelated)

----------------------------------------------------------------------------
(* The claims about find_related_entities.                                 *)

(* The handler has returned its list for an accepted request.              *)
RelatedReturned == call.op = "find_related" /\ call.returned /\ call.status = 200

ResultEntities(results) == {results[i].entity : i \in DOMAIN results}

(* The other endpoints of the relationships that have e as an endpoint.    *)
OtherEndpoints(e) ==
    {relationships[i].targetId :
        i \in {j \in DOMAIN relationships : relationships[j].sourceId = e}}
    \cup {relationships[i].sourceId :
        i \in {j \in DOMAIN relationships : relationships[j].targetId = e}}

(* C11: findRelated(e, depth 1, direction both) without filters returns    *)
(* exactly the stored entities that are the other endpoint of a            *)
(* relationship with e as source or target, each once, and never e.        *)
C11_DirectNeighbours ==
    (/\ RelatedReturned
     /\ call.depth = 1 /\ call.direction = "both"
     /\ call.relationship_type = None /\ call.project_id = None)
        => /\ ResultEntities(call.unique_results)
                  = (OtherEndpoints(call.entity_id) \cap Keys(entities))
                        \ {call.entity_id}
           /\ \A i, j \in DOMAIN call.unique_results :
                  i # j => call.unique_results[i].entity
                               # call.unique_results[j].entity

(* Such a request has returned two entities on a graph in which the start  *)
(* is joined to one of them in both directions.                            *)
C11_Witness ==
    /\ RelatedReturned
    /\ call.depth = 1 /\ call.direction = "both"
    /\ call.relationship_type = None /\ call.project_id = None
    /\ Len(call.unique_results) = 2
    /\ Len(call.results) = 3

(* C12: for every graph, direction and depth in 1..3 the traversal comes   *)
(* to its return, and no entity identifier is expanded (has the            *)
(* relationships scanned for it) more than once.                           *)
C12_ExpandedOnce ==
    /\ [](call.op = "find_related" /\ call.status = 200
            => \A i, j \in DOMAIN call.expanded :
                   i # j => call.expanded[i] # call.expanded[j])
    /\ (~call.returned) ~> call.returned

(* An activation of traverse is about to be turned away, at a depth within *)
(* the bound, because its entity has been expanded already.                *)
C12_Witness ==
    /\ call.op = "find_related" /\ ~call.returned /\ call.stack # <<>>
    /\ LET top == call.stack[Len(call.stack)]
       IN  /\ top.pc = 0 /\ top.current_depth <= call.depth
           /\ top.current_entity_id \in call.visited
    /\ call.depth = 3

(* The relationships the request's filters let through.                    *)
Compatible(rel) ==
    /\ Truthy(call.project_id) => rel.projectId = call.project_id
    /\ Truthy(call.relationship_type) => rel.type = call.relationship_type

(* The stored entities one compatible relationship away from x, in the     *)
(* requested direction.                                                    *)
Neighbours(x) ==
    {y \in Keys(entities) :
        \E i \in DOMAIN relationships :
            /\ Compatible(relationships[i])
            /\ \/ /\ call.direction \in {"outgoing", "both"}
                  /\ relationships[i].sourceId = x /\ relationships[i].targetId = y
               \/ /\ call.direction \in {"incoming", "both"}
                  /\ relationships[i].targetId = x /\ relationships[i].sourceId = y}

(* The entities within k hops of the start.                                *)
RECURSIVE Within(_)
Within(k) ==
    IF k = 0 THEN {call.entity_id}
    ELSE Within(k - 1) \cup UNION {Neighbours(x) : x \in Within(k - 1)}

(* C13: the result keeps the first occurrence of every entity, and the     *)
(* depth reported for a returned entity is the least number of hops from   *)
(* the start over relationships compatible with direction and filters.     *)
C13_ShallowestDepth ==
    RelatedReturned
        => /\ call.unique_results = UniqueResults(call.results, {})
           /\ \A i \in DOMAIN call.unique_results :
                  LET result == call.unique_results[i]
                  IN  /\ result.entity \in Within(result.depth)
                      /\ result.entity \notin Within(result.depth - 1)

----------------------------------------------------------------------------
(* core/knowledge_graph.py: search_entities and search_observations, with  *)
(* their handlers in api/search.py.  A relevance score is kept as an       *)
(* integer: ten times the number of query words times the float the code   *)
(* computes (the query, and so the factor, is the same for every score of  *)
(* one request).                                                           *)

MaxSearchLimit == 100

MinRelevanceScoreTenths == 5

(* How an f-string formats a field.                                        *)
Str(v) == IF v = None THEN <<"N", "o", "n", "e">> ELSE v

(* set(s.split())                                                          *)
RECURSIVE Words(_)
Words(s) ==
    LET t == LStrip(s)
        ends == {i \in DOMAIN t : IsSpace(t[i])} \cup {Len(t) + 1}
        end == CHOOSE i \in ends : \A j \in ends : i <= j
    IN  IF t = <<>> THEN {}
        ELSE {SubSeq(t, 1, end - 1)} \cup Words(SubSeq(t, end, Len(t)))

(* sub in s                                                                *)
Contains(sub, s) ==
    \E i \in 0..(Len(s) - Len(sub)) : SubSeq(s, i + 1, i + Len(sub)) = sub

(* ' '.join(texts)                                                         *)
RECURSIVE Join(_)
Join(texts) ==
    IF texts = <<>> THEN <<>>
    ELSE IF Len(texts) = 1 THEN Head(texts)
    ELSE Head(texts) \o <<" ">> \o Join(Tail(texts))

ObservationTexts(entity) ==
    [i \in DOMAIN entity.observations |-> entity.observations[i].text]

EntityWords(entity) ==
    Words(Lower(Str(entity.name) \o <<" ">> \o Str(entity.description) \o <<" ">>
                    \o Join(ObservationTexts(entity))))

(* The chain of phrase tests: which of them succeeds, or the               *)
(* AttributeError of calling lower() on None.                              *)
PhraseMatch(entity, query_lower) ==
    IF entity.name = None THEN "AttributeError"
    ELSE IF Contains(query_lower, Lower(entity.name)) THEN "name"
    ELSE IF entity.description = None THEN "AttributeError"
    ELSE IF Contains(query_lower, Lower(entity.description)) THEN "description"
    ELSE IF \E i \in DOMAIN entity.observations :
                Contains(query_lower, Lower(entity.observations[i].text))
    THEN "observation"
    ELSE "none"

CommonWords(entity, query_lower) == Words(query_lower) \cap EntityWords(entity)

(* The score of the path without a retriever.                              *)
FallbackScore(entity, query_lower) ==
    Cardinality(CommonWords(entity, query_lower)) * 6
    + Cardinality(Words(query_lower))
        * (CASE PhraseMatch(entity, query_lower) = "name" -> 3
             [] PhraseMatch(entity, query_lower) = "description" -> 2
             [] PhraseMatch(entity, query_lower) = "observation" -> 1
             [] OTHER -> 0)

(* The score of the path with a retriever.                                 *)
StrictScore(entity, query_lower) ==
    LET phrase == CASE PhraseMatch(entity, query_lower) = "name" -> 10
                    [] PhraseMatch(entity, query_lower) = "description" -> 8
                    [] PhraseMatch(entity, query_lower) = "observation" -> 6
                    [] OTHER -> 0
    IN  Cardinality(Words(query_lower)) * phrase
        + (IF phrase > 0
           THEN Cardinality(CommonWords(entity, query_lower)) * 3 ELSE 0)

Scored(x, score) == x @@ [relevance_score |-> score]

RECURSIVE InsertByScore(_, _)
InsertByScore(sorted, x) ==
    IF sorted = <<>> THEN <<x>>
    ELSE IF Head(sorted).relevance_score >= x.relevance_score
    THEN <<Head(sorted)>> \o InsertByScore(Tail(sorted), x)
    ELSE <<x>> \o sorted

(* Mutant: the results are left in the order of the store.                 *)
SortByScoreNot(results, sorted) == sorted \o results

(* results.sort(key = score, reverse = True): stable, highest first.       *)
RECURSIVE SortByScore(_, _)
SortByScore(results, sorted) ==
    IF results = <<>> THEN sorted
    ELSE SortByScore(Tail(results), InsertByScore(sorted, Head(results)))

(* results[:limit], for limit >= 0                                         *)
Slice(results, limit) ==
    SubSeq(results, 1, IF limit < Len(results) THEN limit ELSE Len(results))

(* The entities the loop does not skip for their project.                  *)
InScope(project_id) ==
    SelectSeq(entities,
              LAMBDA entity : ~(Truthy(project_id) /\ entity.projectId # project_id))

StrictResults(query_lower, project_id) ==
    SelectSeq([i \in DOMAIN InScope(project_id) |->
                  Scored(InScope(project_id)[i],
                         StrictScore(InScope(project_id)[i], query_lower))],
              LAMBDA x : x.relevance_score
                            >= MinRelevanceScoreTenths * Cardinality(Words(query_lower)))

FallbackResults(query_lower, project_id) ==
    SelectSeq([i \in DOMAIN InScope(project_id) |->
                  Scored(InScope(project_id)[i],
                         FallbackScore(InScope(project_id)[i], query_lower))],
              LAMBDA x : x.relevance_score > 0)

(* The loop raises when it comes to an entity on which a phrase test       *)
(* raises.                                                                 *)
SearchRaises(query_lower, project_id) ==
    \E i \in DOMAIN InScope(project_id) :
        PhraseMatch(InScope(project_id)[i], query_lower) = "AttributeError"

(* MemvidKnowledgeGraph.search_entities: the list it returns, or the       *)
(* exception that leaves it (in the path with a retriever the exception    *)
(* is caught and the empty list returned).                                 *)
KgSearchEntities(query, limit, project_id) ==
    IF retriever = None
    THEN IF SearchRaises(Lower(query), project_id)
         THEN [raised |-> TRUE, results |-> <<>>]
         ELSE [raised |-> FALSE,
               results |-> Slice(SortByScore(FallbackResults(Lower(query), project_id),
                                             <<>>), limit)]
    ELSE IF SearchRaises(Lower(query), project_id)
         THEN [raised |-> FALSE, results |-> <<>>]
         ELSE [raised |-> FALSE,
               results |-> Slice(SortByScore(StrictResults(Lower(query), project_id),
                                             <<>>), limit)]

ValidateSearchParams(query, limit, max_limit) ==
    IF ~Truthy(query) \/ Strip(query) = <<>>
    THEN Err(400, "Search query is required and cannot be empty")
    ELSE IF limit < 1 THEN Err(400, "Limit must be at least 1")
    ELSE IF limit > max_limit THEN Err(400, "Limit cannot exceed")
    ELSE Ok

(* The checks of both search handlers.                                     *)
SearchResponse(q, limit, project_id) ==
    IF ValidateSearchParams(q, limit, MaxSearchLimit) # Ok
    THEN ValidateSearchParams(q, limit, MaxSearchLimit)
    ELSE IF /\ Truthy(project_id) /\ project_id # DefaultId
            /\ ValidateProjectId(project_id, projects) # Ok
    THEN ValidateProjectId(project_id, projects)
    ELSE Success

(* GET /api/search                                                         *)
SearchEntities(q, limit, project_id) ==
    /\ call.returned
    /\ LET response == SearchResponse(q, limit, project_id)
           found == KgSearchEntities(Strip(q), limit, project_id)
       IN  call' =
             IF response # Success
             THEN [op |-> "search_entities", returned |-> TRUE,
                   status |-> response.status, detail |-> response.detail]
             ELSE IF found.raised
             THEN [op |-> "search_entities", returned |-> TRUE,
                   status |-> 500, detail |-> "AttributeError"]
             ELSE [op |-> "search_entities", returned |-> TRUE,
                   status |-> 200, detail |-> "ok",
                   query |-> Strip(q), limit |-> limit, project_id |-> project_id,
                   entities |-> found.results, count |-> Len(found.results)]
    /\ ReadOnly

(* The score of one observation.                                           *)
ObservationScore(obs, query_lower) ==
    (IF Contains(query_lower, Lower(obs.text))
     THEN 6 * Cardinality(Words(query_lower)) ELSE 0)
    + Cardinality(Words(query_lower) \cap Words(Lower(obs.text))) * 4

(* Mutant: the creator of the observation is not looked at.                *)
ObservationPassesAnyone(obs, added_by) == TRUE

ObservationPasses(obs, added_by) ==
    ~(Truthy(added_by) /\ Lower(obs.addedBy) # Lower(added_by))

(* The results the inner loop appends for one entity.                      *)
ObservationResults(entity, query_lower, added_by) ==
    SelectSeq([i \in DOMAIN entity.observations |->
                  [id |-> entity.observations[i].id,
                   text |-> entity.observations[i].text,
                   addedBy |-> entity.observations[i].addedBy,
                   entityId |-> entity.id, entity_name |-> entity.name,
                   entity_type |-> entity.type,
                   entity_description |-> entity.description,
                   projectId |-> entity.projectId,
                   relevance_score |->
                       IF ObservationPasses(entity.observations[i], added_by)
                       THEN ObservationScore(entity.observations[i], query_lower)
                       ELSE 0]],
              LAMBDA x : x.relevance_score > 0)

RECURSIVE Concat(_)
Concat(lists) == IF lists = <<>> THEN <<>> ELSE Head(lists) \o Concat(Tail(lists))

(* MemvidKnowledgeGraph.search_observations                                *)
KgSearchObservations(query, limit, project_id, entity_id, added_by) ==
    LET searched ==
            SelectSeq(InScope(project_id),
                      LAMBDA entity : ~(Truthy(entity_id) /\ entity.id # entity_id))
    IN  Slice(SortByScore(
                  Concat([i \in DOMAIN searched |->
                             ObservationResults(searched[i], Lower(query), added_by)]),
                  <<>>), limit)

(* GET /api/observations/search                                            *)
SearchObservations(q, limit, project_id, entity_id, added_by) ==
    /\ call.returned
    /\ LET response ==
               IF SearchResponse(q, limit, project_id) # Success
               THEN SearchResponse(q, limit, project_id)
               ELSE IF Truthy(entity_id) /\ ValidateEntityId(entity_id, entities) # Ok
               THEN ValidateEntityId(entity_id, entities)
               ELSE Success
       IN  call' =
             IF response # Success
             THEN [op |-> "search_observations", returned |-> TRUE,
                   status |-> response.status, detail |-> response.detail]
             ELSE [op |-> "search_observations", returned |-> TRUE,
                   status |-> 200, detail |-> "ok",
                   query |-> Strip(q), limit |-> limit, project_id |-> project_id,
                   entity_id |-> entity_id, added_by |-> added_by,
                   observations |->
                       KgSearchObservations(Strip(q), limit, project_id,
                                            entity_id, added_by)]
    /\ ReadOnly

----------------------------------------------------------------------------
(* The stores that are searched: up to two entities, each with one of the  *)
(* texts below and in either project; name and description are None where  *)
(* an update has stored a null.                                            *)

NumSearchEntityIds == 2

Observation(text, addedBy) == [text |-> text, addedBy |-> addedBy]

SearchText(name, description, observations) ==
    [name |-> name, description |-> description, observations |-> observations]

SearchTexts ==
    {SearchText(<<"a", "b">>, <<"d">>, <<>>),
     SearchText(<<"b">>, <<"a">>, <<>>),
     SearchText(<<"c">>, <<"d">>, <<Observation(<<"a">>, <<"u">>)>>),
     SearchText(<<"c">>, <<"d">>, <<>>),
     SearchText(<<"A", " ", "b">>, <<"d">>,
                <<Observation(<<"c">>, <<"u">>),
                  Observation(<<"a", " ", "B">>, <<"v">>)>>),
     SearchText(None, <<"d">>, <<>>),
     SearchText(<<"a">>, None, <<>>)}

SearchEntity(n, text, projectId) ==
    [id |-> GraphEntityId(n), name |-> text.name, type |-> <<"t">>,
     description |-> text.description,
     observations |->
         [k \in DOMAIN text.observations |->
             [id |-> <<"o", Digits[n], Digits[k]>>,
              text |-> text.observations[k].text,
              addedBy |-> text.observations[k].addedBy]],
     addedBy |-> <<"u">>, projectId |-> projectId]

SearchStores ==
    UNION {{[i \in 1..n |-> SearchEntity(i, choice[i][1], choice[i][2])] :
                choice \in [1..n -> SearchTexts \X ProjectIdInputs]} :
           n \in 0..NumSearchEntityIds}

QueryInputs == {<<"a">>, <<"a", " ", "b">>, <<" ", "A">>}

LimitInputs == {1, NumSearchEntityIds}

SearchArgs(q, limit, project_id, entity_id, added_by) ==
    [q |-> q, limit |-> limit, project_id |-> project_id,
     entity_id |-> entity_id, added_by |-> added_by]

(* The search requests: every query with every limit, unfiltered or with   *)
(* one filter; and one for every check of the handlers.                    *)
SearchInputs ==
    {SearchArgs(q, limit, project_id, None, None) :
        q \in QueryInputs, limit \in LimitInputs,
        project_id \in {None} \cup ProjectIdInputs}
    \cup {SearchArgs(q, limit, None, filter[1], filter[2]) :
            q \in QueryInputs, limit \in LimitInputs,
            filter \in {<<GraphEntityId(1), None>>, <<None, (<<"U">>)>>}}
    \cup {SearchArgs(Blank, 1, None, None, None),
          SearchArgs(<<"a">>, 0, None, None, None),
          SearchArgs(<<"a">>, MaxSearchLimit + 1, None, None, None),
          SearchArgs(<<"a">>, 1, AbsentId, None, None),
          SearchArgs(<<"a">>, 1, None, AbsentId, None)}

InitSearch ==
    \E store \in SearchStores, index \in {None, Retriever} :
        /\ entities = store
        /\ relationships = <<>>
        /\ projects = <<DefaultProject>> \o
                      [i \in 1..NumProjectIds |->
                          [id |-> <<"p", Digits[i]>>, name |-> <<"P", Digits[i]>>,
                           description |-> None]]
        /\ snapshot = File("document", entities, relationships, projects)
        /\ issued = Keys(entities) \cup Keys(projects)
        /\ last = [op |-> "init", id |-> None, status |-> 0, detail |-> "ok"]
        /\ pre = NoHistory
        /\ retriever = index
        /\ call = Idle
        /\ env = Environment(IF index = None THEN "unavailable" ELSE "ok", "ok")
        /\ done = <<>>
        /\ tasks = <<>>

NextSearch ==
    \/ \E args \in {a \in SearchInputs : a.entity_id = None /\ a.added_by = None} :
            SearchEntities(args.q, args.limit, args.project_id)
    \/ \E args \in SearchInputs :
            SearchObservations(args.q, args.limit, args.project_id,
                               args.entity_id, args.added_by)

SpecSearch == InitSearch /\ [][NextSearch]_vars

----------------------------------------------------------------------------
(* The claims about the searches.                                          *)

(* GET /api/search has answered with a list.                               *)
EntitiesReturned == call.op = "search_entities" /\ call.status = 200

NonIncreasing(results) ==
    \A i, j \in DOMAIN results :
        i < j => results[i].relevance_score >= results[j].relevance_score

(* C14: searchEntities returns at most limit results, in order of          *)
(* non-increasing relevance score, all of them in the project of the       *)
(* filter when one is given; with and without a retriever.                 *)
C14_LimitOrderScope ==
    EntitiesReturned
        => /\ Len(call.entities) <= call.limit
           /\ NonIncreasing(call.entities)
           /\ Truthy(call.project_id)
                  => \A i \in DOMAIN call.entities :
                         call.entities[i].projectId = call.project_id

(* Two entities were returned, the one stored second first, with a higher  *)
(* score.                                                                  *)
C14_Witness ==
    /\ EntitiesReturned
    /\ Len(call.entities) = 2
    /\ call.entities[1].id = GraphEntityId(2)
    /\ call.entities[1].relevance_score > call.entities[2].relevance_score

(* The list was not cut at the limit.                                      *)
Untruncated(results) == Len(results) < call.limit

(* C15: with a retriever, an entity in scope is returned if and only if    *)
(* its score is at least the minimum relevance (0.5); an entity of which   *)
(* neither name, description nor any observation contains the query is     *)
(* never returned.                                                         *)
C15_StrictThreshold ==
    (EntitiesReturned /\ retriever # None)
        => \A i \in DOMAIN InScope(call.project_id) :
               LET entity == InScope(call.project_id)[i]
                   score == StrictScore(entity, Lower(call.query))
                   least == MinRelevanceScoreTenths
                                * Cardinality(Words(Lower(call.query)))
                   returned == entity.id \in Keys(call.entities)
               IN  /\ returned => score >= least
                   /\ (score >= least /\ Untruncated(call.entities)) => returned
                   /\ PhraseMatch(entity, Lower(call.query)) = "none" => ~returned

(* C16: with a retriever and for one query, an entity whose name contains  *)
(* the query scores higher than one of which only the description does,    *)
(* and that one higher than one of which only an observation does; so in   *)
(* the results name matches come first and observation matches last.       *)
MatchRank(entity, query_lower) ==
    CASE PhraseMatch(entity, query_lower) = "name" -> 3
      [] PhraseMatch(entity, query_lower) = "description" -> 2
      [] PhraseMatch(entity, query_lower) = "observation" -> 1
      [] OTHER -> 0

C16_NameDescriptionObservation ==
    /\ \A q \in QueryInputs, i, j \in DOMAIN entities :
           (/\ MatchRank(entities[i], Lower(Strip(q))) > 0
            /\ MatchRank(entities[j], Lower(Strip(q))) > 0
            /\ MatchRank(entities[i], Lower(Strip(q)))
                   > MatchRank(entities[j], Lower(Strip(q))))
               => StrictScore(entities[i], Lower(Strip(q)))
                      > StrictScore(entities[j], Lower(Strip(q)))
    /\ (EntitiesReturned /\ retriever # None)
           => \A i, j \in DOMAIN call.entities :
                  i < j => MatchRank(Lookup(entities, call.entities[i].id),
                                     Lower(call.query))
                             >= MatchRank(Lookup(entities, call.entities[j].id),
                                          Lower(call.query))

(* C17: without a retriever, a search that passes the handler's checks     *)
(* does not fail, applies no threshold, and returns exactly the entities   *)
(* in scope whose score is greater than 0.                                 *)
C17_FallbackPositiveScore ==
    (call.op = "search_entities" /\ retriever = None /\ call.status \notin {400, 404})
        => /\ call.status = 200
           /\ \A i \in DOMAIN InScope(call.project_id) :
                  LET entity == InScope(call.project_id)[i]
                      returned == entity.id \in Keys(call.entities)
                  IN  /\ returned => FallbackScore(entity, Lower(call.query)) > 0
                      /\ (/\ FallbackScore(entity, Lower(call.query)) > 0
                          /\ Untruncated(call.entities)) => returned

(* GET /api/observations/search has answered with a list.                  *)
ObservationsReturned == call.op = "search_observations" /\ call.status = 200

(* The observations of the store with the entity that owns each.           *)
Owned ==
    UNION {{[entity |-> entities[i], obs |-> entities[i].observations[k]] :
                k \in DOMAIN entities[i].observations} : i \in DOMAIN entities}

(* 0.6 for the query as a substring of the text plus 0.4 times the share   *)
(* of the query words among the words of the text.                         *)
OwnTextScore(text, query_lower) ==
    (IF Contains(query_lower, Lower(text))
     THEN 6 * Cardinality(Words(query_lower)) ELSE 0)
    + 4 * Cardinality({w \in Words(query_lower) : w \in Words(Lower(text))})

PassesFilters(owned) ==
    /\ Truthy(call.project_id) => owned.entity.projectId = call.project_id
    /\ Truthy(call.entity_id) => owned.entity.id = call.entity_id
    /\ Truthy(call.added_by) => Lower(owned.obs.addedBy) = Lower(call.added_by)

(* C18: searchObservations scores an observation from its own text only,   *)
(* returns it if and only if that score is greater than 0 and it passes    *)
(* the project, entity and addedBy filters, orders the results by          *)
(* non-increasing score, and gives each the id, name, type, description    *)
(* and project of the entity that owns it.                                 *)
C18_ObservationSearch ==
    ObservationsReturned
        => /\ NonIncreasing(call.observations)
           /\ \A i \in DOMAIN call.observations :
                  \E owned \in Owned :
                      /\ owned.obs.id = call.observations[i].id
                      /\ owned.obs.text = call.observations[i].text
                      /\ PassesFilters(owned)
                      /\ call.observations[i].relevance_score
                             = OwnTextScore(owned.obs.text, Lower(call.query))
                      /\ call.observations[i].relevance_score > 0
                      /\ call.observations[i].entityId = owned.entity.id
                      /\ call.observations[i].entity_name = owned.entity.name
                      /\ call.observations[i].entity_type = owned.entity.type
                      /\ call.observations[i].entity_description
                             = owned.entity.description
                      /\ call.observations[i].projectId = owned.entity.projectId
           /\ Untruncated(call.observations)
                  => \A owned \in Owned :
                         (/\ PassesFilters(owned)
                          /\ OwnTextScore(owned.obs.text, Lower(call.query)) > 0)
                             => owned.obs.id \in Keys(call.observations)

(* A search by creator has returned one observation while the store holds  *)
(* another that matches the query but is by someone else.                  *)
C18_Witness ==
    /\ ObservationsReturned
    /\ Truthy(call.added_by)
    /\ Len(call.observations) = 1
    /\ \E owned \in Owned :
           /\ OwnTextScore(owned.obs.text, Lower(call.query)) > 0
           /\ Lower(owned.obs.addedBy) # Lower(call.added_by)

----------------------------------------------------------------------------
(* The other read requests: get_analytics (api/search.py), get_entity and  *)
(* list_entities (api/entities.py), list_projects (api/projects.py), with  *)
(* the methods of MemvidKnowledgeGraph they call.                          *)

(* Mutant: a key is recorded once, not counted.                            *)
HistogramPresent(values, counts) ==
    [v \in {values[i] : i \in DOMAIN values} \cup DOMAIN counts |-> 1]

(* counts[v] = counts.get(v, 0) + 1, for every v of the list.              *)
RECURSIVE Histogram(_, _)
Histogram(values, counts) ==
    IF values = <<>> THEN counts
    ELSE Histogram(Tail(values),
                   IF Head(values) \in DOMAIN counts
                   THEN [counts EXCEPT ![Head(values)] = @ + 1]
                   ELSE counts @@ (Head(values) :> 1))

(* sum(len(e.observations) for e in entities)                              *)
RECURSIVE SumObservations(_)
SumObservations(ents) ==
    IF ents = <<>> THEN 0
    ELSE Len(Head(ents).observations) + SumObservations(Tail(ents))

EmptyDict == <<>>

TopContributorsLimit == 5

(* contributors[name]['entities'] += entities, ['observations'] +=         *)
(* observations, after the entry is made if it is not there.  The entities *)
(* of a contributor are kept in halves: 2 for an entity, 1 for the 0.5 of  *)
(* a relationship.                                                         *)
Credit(contributors, name, halves, observations) ==
    IF \E i \in DOMAIN contributors : contributors[i].name = name
    THEN [i \in DOMAIN contributors |->
             IF contributors[i].name = name
             THEN [contributors[i] EXCEPT !.halves = @ + halves,
                                          !.observations = @ + observations]
             ELSE contributors[i]]
    ELSE Append(contributors,
                [name |-> name, halves |-> halves, observations |-> observations])

(* The loop over the entities in scope.                                    *)
RECURSIVE CreditEntities(_, _)
CreditEntities(ents, contributors) ==
    IF ents = <<>> THEN contributors
    ELSE CreditEntities(Tail(ents),
                        Credit(contributors, Head(ents).addedBy, 2,
                               Len(Head(ents).observations)))

(* The loop over the relationships in scope.                               *)
RECURSIVE CreditRelationships(_, _)
CreditRelationships(rels, contributors) ==
    IF rels = <<>> THEN contributors
    ELSE CreditRelationships(Tail(rels),
                             Credit(contributors, Head(rels).addedBy, 1, 0))

(* The key of the sort, entities + observations, in halves.                *)
ContributionHalves(stats) == stats.halves + 2 * stats.observations

RECURSIVE InsertByContribution(_, _)
InsertByContribution(sorted, x) ==
    IF sorted = <<>> THEN <<x>>
    ELSE IF ContributionHalves(Head(sorted)) >= ContributionHalves(x)
    THEN <<Head(sorted)>> \o InsertByContribution(Tail(sorted), x)
    ELSE <<x>> \o sorted

(* sorted(contributors.items(), key = ..., reverse = True): stable.        *)
RECURSIVE SortByContribution(_, _)
SortByContribution(contributors, sorted) ==
    IF contributors = <<>> THEN sorted
    ELSE SortByContribution(Tail(contributors),
                            InsertByContribution(sorted, Head(contributors)))

(* The list top_contributors; int() drops the half.                        *)
TopContributors(ents, rels) ==
    LET ranked == Slice(SortByContribution(
                            CreditRelationships(rels, CreditEntities(ents, <<>>)),
                            <<>>),
                        TopContributorsLimit)
    IN  [i \in DOMAIN ranked |->
            [name |-> ranked[i].name, entities |-> ranked[i].halves \div 2,
             observations |-> ranked[i].observations]]

TopConnectedEntitiesLimit == 5

RECURSIVE Gcd(_, _)
Gcd(a, b) == IF b = 0 THEN a ELSE Gcd(b, a % b)

(* a / b on two ints: the float, kept as the fraction in lowest terms it   *)
(* is the nearest value to; ZeroDivisionError is raised when b is 0.       *)
ZeroDivisionError == [num |-> 0, den |-> 0]

TrueDiv(a, b) ==
    IF b = 0 THEN ZeroDivisionError
    ELSE [num |-> a \div Gcd(a, b), den |-> b \div Gcd(a, b)]

(* total / total_entities if total_entities > 0 else 0                     *)
PerEntity(total, total_entities) ==
    IF total_entities > 0 THEN TrueDiv(total, total_entities) ELSE TrueDiv(0, 1)

(* entity_connectivity[id] = entity_connectivity.get(id, 0) + 1; the dict  *)
(* keeps its keys in the order in which they were first set.               *)
Connect(entity_connectivity, entity_id) ==
    IF \E i \in DOMAIN entity_connectivity : entity_connectivity[i][1] = entity_id
    THEN [i \in DOMAIN entity_connectivity |->
             IF entity_connectivity[i][1] = entity_id
             THEN <<entity_id, entity_connectivity[i][2] + 1>>
             ELSE entity_connectivity[i]]
    ELSE Append(entity_connectivity, <<entity_id, 1>>)

(* The loop over the relationships in scope.                               *)
RECURSIVE EntityConnectivity(_, _)
EntityConnectivity(rels, entity_connectivity) ==
    IF rels = <<>> THEN entity_connectivity
    ELSE EntityConnectivity(Tail(rels),
                            Connect(Connect(entity_connectivity, Head(rels).sourceId),
                                    Head(rels).targetId))

RECURSIVE InsertByCount(_, _)
InsertByCount(sorted, x) ==
    IF sorted = <<>> THEN <<x>>
    ELSE IF Head(sorted)[2] >= x[2]
    THEN <<Head(sorted)>> \o InsertByCount(Tail(sorted), x)
    ELSE <<x>> \o sorted

(* sorted(pairs, key = lambda x: x[1], reverse = True): stable.            *)
RECURSIVE SortByCount(_, _)
SortByCount(pairs, sorted) ==
    IF pairs = <<>> THEN sorted
    ELSE SortByCount(Tail(pairs), InsertByCount(sorted, Head(pairs)))

(* What include_details adds: the two averages and, if a relationship is   *)
(* in scope, the most connected entities.                                  *)
Details(ents, rels) ==
    LET averages ==
            [avg_observations_per_entity |->
                 PerEntity(SumObservations(ents), Len(ents)),
             avg_relationships_per_entity |-> PerEntity(Len(rels), Len(ents))]
        entity_connectivity == EntityConnectivity(rels, <<>>)
    IN  IF entity_connectivity # <<>>
        THEN averages @@
             [most_connected_entities |->
                 Slice(SortByCount(entity_connectivity, <<>>),
                       TopConnectedEntitiesLimit)]
        ELSE averages

(* MemvidKnowledgeGraph.get_analytics: the counts, the two histograms, the *)
(* statistics of the projects, the top contributors and, on request, the   *)
(* details.                                                                *)
KgGetAnalytics(project_id, include_details) ==
    LET in_project(x) == ~Truthy(project_id) \/ x.projectId = project_id
        ents == SelectSeq(entities, in_project)
        rels == SelectSeq(relationships, in_project)
        projects_to_analyze ==
            IF Truthy(project_id) THEN <<Lookup(projects, project_id)>> ELSE projects
        analytics ==
            [total_entities |-> Len(ents),
             total_relationships |-> Len(rels),
             total_observations |-> SumObservations(ents),
             total_projects |-> IF ~Truthy(project_id) THEN Len(projects) ELSE 1,
             entity_types |->
                 Histogram([i \in DOMAIN ents |-> ents[i].type], EmptyDict),
             relationship_types |->
                 Histogram([i \in DOMAIN rels |-> rels[i].type], EmptyDict),
             project_stats |->
                 [i \in DOMAIN projects_to_analyze |->
                     LET project == projects_to_analyze[i]
                         of_project(x) == x.projectId = project.id
                     IN  [id |-> project.id, name |-> project.name,
                          entity_count |-> Len(SelectSeq(entities, of_project)),
                          relationship_count |->
                              Len(SelectSeq(relationships, of_project)),
                          observation_count |->
                              SumObservations(SelectSeq(entities, of_project))]],
             top_contributors |-> TopContributors(ents, rels)]
    IN  IF include_details THEN analytics @@ Details(ents, rels) ELSE analytics

(* The check of the handlers that take an optional project.                *)
OptionalProjectResponse(project_id) ==
    IF /\ Truthy(project_id) /\ project_id # DefaultId
       /\ ValidateProjectId(project_id, projects) # Ok
    THEN ValidateProjectId(project_id, projects)
    ELSE Success

Returned(op, response, result) ==
    IF response # Success
    THEN [op |-> op, returned |-> TRUE, status |-> response.status,
          detail |-> response.detail]
    ELSE [op |-> op, returned |-> TRUE, status |-> 200, detail |-> "ok",
          result |-> result]

(* GET /api/analytics.  An exception of the store is answered with 500.    *)
GetAnalytics(project_id, include_details) ==
    /\ call.returned
    /\ LET response == OptionalProjectResponse(project_id)
           analytics == IF response = Success
                        THEN KgGetAnalytics(project_id, include_details)
                        ELSE EmptyDict
       IN  call' = IF /\ response = Success /\ include_details
                      /\ ZeroDivisionError
                             \in {analytics.avg_observations_per_entity,
                                  analytics.avg_relationships_per_entity}
                   THEN Returned("get_analytics", Err(500, "ZeroDivisionError"),
                                 EmptyDict)
                   ELSE Returned("get_analytics", response,
                                 [project_id |-> project_id,
                                  include_details |-> include_details,
                                  analytics |-> analytics])
    /\ ReadOnly

(* GET /api/entities/{entity_id}                                           *)
GetEntity(entity_id) ==
    /\ call.returned
    /\ call' = Returned("get_entity", ValidateEntityId(entity_id, entities),
                        IF entity_id \in Keys(entities)
                        THEN Lookup(entities, entity_id) ELSE None)
    /\ ReadOnly

KgListEntities(entity_type, project_id) ==
    SelectSeq(entities,
              LAMBDA e : /\ Truthy(entity_type) => e.type = entity_type
                         /\ Truthy(project_id) => e.projectId = project_id)

(* GET /api/entities                                                       *)
ListEntities(type, project_id) ==
    /\ call.returned
    /\ call' = Returned("list_entities", OptionalProjectResponse(project_id),
                        KgListEntities(type, project_id))
    /\ ReadOnly

KgListProjects ==
    [i \in DOMAIN projects |->
        LET of_project(x) == x.projectId = projects[i].id
            entity_count == Len(SelectSeq(entities, of_project))
            relationship_count == Len(SelectSeq(relationships, of_project))
        IN  projects[i] @@ [entityCount |-> entity_count,
                            relationshipCount |-> relationship_count,
                            activityScore |-> entity_count * 2 + relationship_count]]

(* GET /api/projects                                                       *)
ListProjects ==
    /\ call.returned
    /\ call' = Returned("list_projects", Success, KgListProjects)
    /\ ReadOnly

----------------------------------------------------------------------------
(* The stores that are read: the service has been started on a snapshot    *)
(* of up to three entities of two types in either project, the first and   *)
(* the last with one observation, up to two relationships, and the         *)
(* project "p1"; the default project is added in memory only.              *)

NumReadEntityIds == 3

TypeInputs == {<<"c">>, <<"p">>}

ReadEntity(n, type, projectId) ==
    [id |-> GraphEntityId(n), name |-> <<GraphNames[n]>>, type |-> type,
     description |-> <<"d">>,
     observations |->
         IF n = 2 THEN <<>>
         ELSE <<[id |-> <<"o", Digits[n], Digits[1]>>, text |-> <<"a">>,
                 addedBy |-> <<"u">>]>>,
     addedBy |-> <<"u">>, projectId |-> projectId]

ReadGraphs ==
    LET r1 == Relationship(<<"r", "1">>, GraphEntityId(1), GraphEntityId(2),
                           <<"r">>, <<"u">>, DefaultId)
        r2 == Relationship(<<"r", "2">>, GraphEntityId(2), GraphEntityId(1),
                           <<"s">>, <<"u">>, <<"p", "1">>)
        r3 == Relationship(<<"r", "2">>, GraphEntityId(2), GraphEntityId(3),
                           <<"r">>, <<"u">>, DefaultId)
    IN  {<<>>, <<r1>>, <<r2>>, <<r1, r2>>, <<r1, r3>>}

ReadSnapshots ==
    UNION {{File("document",
                 [i \in 1..n |-> ReadEntity(i, choice[i][1], choice[i][2])],
                 graph,
                 <<[id |-> <<"p", "1">>, name |-> <<"P">>, description |-> None]>>) :
                choice \in [1..n -> TypeInputs \X {DefaultId, <<"p", "1">>}],
                graph \in ReadGraphs} :
           n \in 0..NumReadEntityIds}

InitRead ==
    \E file \in ReadSnapshots, index \in {None, Retriever} :
        /\ Construct(file) /\ pre = NoHistory /\ retriever = index
        /\ env = Environment(IF index = None THEN "unavailable" ELSE "ok", "ok")

ReadSearchInputs ==
    {SearchArgs(<<"a">>, 1, None, None, None),
     SearchArgs(<<"a">>, NumReadEntityIds, <<"p", "1">>, None, None),
     SearchArgs(<<"a">>, NumReadEntityIds, None, GraphEntityId(1), <<"u">>),
     SearchArgs(Blank, 1, None, None, None)}

NextRead ==
    \/ \E args \in ReadSearchInputs :
            SearchEntities(args.q, args.limit, args.project_id)
    \/ \E args \in ReadSearchInputs :
            SearchObservations(args.q, args.limit, args.project_id,
                               args.entity_id, args.added_by)
    \/ \E depth \in 1..2 :
            FindRelatedEntities(GraphEntityId(1), "both", None, depth, None)
    \/ Traverse
    \/ ReturnRelated
    \/ \E project_id \in {None, DefaultId, <<"p", "1">>, AbsentId} :
            GetAnalytics(project_id, FALSE)
    \/ \E entity_id \in {GraphEntityId(1), AbsentId} : GetEntity(entity_id)
    \/ \E type \in {None, <<"c">>}, project_id \in {None, <<"p", "1">>, AbsentId} :
            ListEntities(type, project_id)
    \/ ListProjects

SpecRead == InitRead /\ [][NextRead]_vars

----------------------------------------------------------------------------
(* The claims about the read requests.                                     *)

(* C19: searchEntities, searchObservations, findRelated, getAnalytics,     *)
(* getEntity, listEntities and listProjects leave the entities, the        *)
(* relationships and the projects as they are, and write no snapshot.      *)
C19_ReadsChangeNothing ==
    [][call' # call
         => /\ entities' = entities /\ relationships' = relationships
            /\ projects' = projects /\ snapshot' = snapshot]_vars

(* A read has been answered from a store that holds entities and           *)
(* relationships and differs from the snapshot file.                       *)
C19_Witness ==
    /\ call.op = "list_projects" /\ call.status = 200
    /\ entities # <<>> /\ relationships # <<>>
    /\ snapshot # File("document", entities, relationships, projects)

RECURSIVE SumCounts(_)
SumCounts(counts) ==
    IF DOMAIN counts = {} THEN 0
    ELSE LET k == CHOOSE k \in DOMAIN counts : TRUE
         IN  counts[k] + SumCounts([j \in DOMAIN counts \ {k} |-> counts[j]])

(* The positions of the items the request's project filter lets through.   *)
Scope(items, project_id) ==
    {i \in DOMAIN items : ~Truthy(project_id) \/ items[i].projectId = project_id}

(* C20: getAnalytics reports as total_entities, total_relationships and    *)
(* total_observations the numbers of entities, relationships and           *)
(* observations in scope; entity_types and relationship_types count the    *)
(* items of every type, so that their counts add up to the totals.         *)
C20_AnalyticsCounts ==
    (call.op = "get_analytics" /\ call.status = 200)
        => LET a == call.result.analytics
               ents == Scope(entities, call.result.project_id)
               rels == Scope(relationships, call.result.project_id)
           IN  /\ a.total_entities = Cardinality(ents)
               /\ a.total_relationships = Cardinality(rels)
               /\ a.total_observations
                      = Cardinality({o \in Owned : o.entity.id
                                        \in {entities[i].id : i \in ents}})
               /\ DOMAIN a.entity_types = {entities[i].type : i \in ents}
               /\ \A t \in DOMAIN a.entity_types :
                      a.entity_types[t]
                          = Cardinality({i \in ents : entities[i].type = t})
               /\ DOMAIN a.relationship_types = {relationships[i].type : i \in rels}
               /\ \A t \in DOMAIN a.relationship_types :
                      a.relationship_types[t]
                          = Cardinality({i \in rels : relationships[i].type = t})
               /\ SumCounts(a.entity_types) = a.total_entities
               /\ SumCounts(a.relationship_types) = a.total_relationships

(* The analytics of a store with two entities of one type, one of another  *)
(* and two relationships: 3 entities, counts 2 and 1, 2 relationships.     *)
C20_Witness ==
    /\ call.op = "get_analytics" /\ call.status = 200
    /\ call.result.project_id = None
    /\ call.result.analytics.total_entities = 3
    /\ call.result.analytics.entity_types = (<<"c">> :> 2) @@ (<<"p">> :> 1)
    /\ call.result.analytics.total_relationships = 2
    /\ call.result.analytics.total_observations = 2

----------------------------------------------------------------------------
(* The stores that are analysed: up to three entities by either of two     *)
(* authors, each with no observation, one by the first author or two by    *)
(* the second, the first entity in either project; and no relationship,    *)
(* one or two by the first author, or four by four other authors.          *)

NumAnalyticsEntityIds == 3

AuthorInputs == {<<"u">>, <<"v">>}

ObserverInputs == {<<>>, <<(<<"u">>)>>, <<(<<"v">>), (<<"v">>)>>}

AnalyticsEntity(n, addedBy, observers, projectId) ==
    [id |-> GraphEntityId(n), name |-> <<GraphNames[n]>>, type |-> <<"t">>,
     description |-> <<"d">>,
     observations |->
         [k \in DOMAIN observers |->
             [id |-> <<"o", Digits[n], Digits[k]>>, text |-> <<"a">>,
              addedBy |-> observers[k]]],
     addedBy |-> addedBy, projectId |-> projectId]

AnalyticsGraphs(n) ==
    LET r(k, i, j, addedBy) ==
            Relationship(<<"r", Digits[k]>>, GraphEntityId(i), GraphEntityId(j),
                         <<"r">>, addedBy, DefaultId)
    IN  {<<>>}
        \cup (IF n >= 2
              THEN {<<r(1, 1, 2, <<"u">>)>>,
                    <<r(1, 1, 2, <<"u">>), r(2, 2, 1, <<"u">>)>>}
              ELSE {})
        \cup (IF n >= 3
              THEN {<<r(1, 1, 2, <<"w">>), r(2, 2, 1, <<"x">>),
                      r(3, 1, 3, <<"y">>), r(4, 2, 3, <<"z">>)>>}
              ELSE {})

AnalyticsStores ==
    UNION {{[entities |->
                 [i \in 1..n |->
                     AnalyticsEntity(i, choice[i][1], choice[i][2],
                                     IF i = 1 THEN project_id ELSE DefaultId)],
             relationships |-> graph] :
                choice \in [1..n -> AuthorInputs \X ObserverInputs],
                project_id \in ProjectIdInputs,
                graph \in AnalyticsGraphs(n)} :
           n \in 0..NumAnalyticsEntityIds}

InitAnalytics ==
    \E store \in AnalyticsStores :
        /\ entities = store.entities
        /\ relationships = store.relationships
        /\ projects = <<DefaultProject>> \o
                      [i \in 1..NumProjectIds |->
                          [id |-> <<"p", Digits[i]>>, name |-> <<"P", Digits[i]>>,
                           description |-> None]]
        /\ snapshot = File("document", entities, relationships, projects)
        /\ issued = Keys(entities) \cup Keys(relationships) \cup Keys(projects)
        /\ last = [op |-> "init", id |-> None, status |-> 0, detail |-> "ok"]
        /\ pre = NoHistory
        /\ retriever = None
        /\ call = Idle
        /\ env = Plain
        /\ done = <<>>
        /\ tasks = <<>>

NextAnalytics ==
    \E project_id \in {None, AbsentId} \cup ProjectIdInputs :
        GetAnalytics(project_id, FALSE)

SpecAnalytics == InitAnalytics /\ [][NextAnalytics]_vars

(* What a contributor has in the scope of the request: the entities and    *)
(* the relationships they authored, and the observations they added.       *)
EntitiesBy(name, project_id) ==
    Cardinality({i \in Scope(entities, project_id) : entities[i].addedBy = name})

RelationshipsBy(name, project_id) ==
    Cardinality({i \in Scope(relationships, project_id) :
                    relationships[i].addedBy = name})

ObservationsBy(name, project_id) ==
    Cardinality({o \in Owned :
                    /\ o.obs.addedBy = name
                    /\ ~Truthy(project_id) \/ o.entity.projectId = project_id})

(* Entity points plus observations, in halves of a point.                  *)
RankHalves(name, project_id) ==
    2 * EntitiesBy(name, project_id) + RelationshipsBy(name, project_id)
        + 2 * ObservationsBy(name, project_id)

(* C21: every entry of top_contributors carries the points of its          *)
(* contributor, 1 for an entity authored and 0.5 for a relationship        *)
(* authored (reported as a whole number), and the number of observations   *)
(* the contributor added; the entries are in descending order of entity    *)
(* points plus observations, and there are at most 5 of them.              *)
C21_TopContributors ==
    (call.op = "get_analytics" /\ call.status = 200)
        => LET top == call.result.analytics.top_contributors
               project_id == call.result.project_id
           IN  /\ Len(top) <= TopContributorsLimit
               /\ \A i \in DOMAIN top :
                      /\ top[i].entities
                             = (2 * EntitiesBy(top[i].name, project_id)
                                + RelationshipsBy(top[i].name, project_id)) \div 2
                      /\ top[i].observations
                             = ObservationsBy(top[i].name, project_id)
               /\ \A i, j \in DOMAIN top :
                      i < j => RankHalves(top[i].name, project_id)
                                 >= RankHalves(top[j].name, project_id)

----------------------------------------------------------------------------
(* The service under faults: it is started on a snapshot that may be        *)
(* damaged, with or without a memvid package whose encoder may raise, and  *)
(* on a metadata file that can or cannot be written; every mutating        *)
(* request is issued, the well-formed ones and one that each handler       *)
(* refuses.                                                                *)

(* A document whose entities are valid and whose only relationship lacks   *)
(* its type, and one whose only project lacks its name.                    *)
DamagedRelationships ==
    File("document", WrittenSnapshot.entities,
         <<[id |-> <<"r", "1">>, sourceId |-> <<"e", "1">>,
            targetId |-> <<"e", "2">>, type |-> None, description |-> None,
            addedBy |-> <<"u">>, projectId |-> DefaultId]>>,
         WrittenSnapshot.projects)

DamagedProjects ==
    File("document", WrittenSnapshot.entities, <<>>,
         <<[id |-> <<"p", "1">>, name |-> None, description |-> None]>>)

FaultSnapshots ==
    {Missing, Unreadable, DamagedRelationships, DamagedProjects}

FaultEnvironments ==
    {Plain, Environment("unreliable", "ok"), Environment("unreliable", "failing")}

FaultCreateEntityInputs ==
    {Entity(None, <<"a">>, <<"t">>, <<"d">>, <<"u">>, DefaultId),
     Entity(<<"e", "1">>, <<"b">>, <<"t">>, <<"d">>, <<"u">>, DefaultId),
     Entity(None, Blank, <<"t">>, <<"d">>, <<"u">>, DefaultId)}

FaultUpdateInputs ==
    {[name |-> None], [projectId |-> <<"p", "1">>], [id |-> <<"e", "2">>]}

ObservationInputs ==
    {[entityId |-> AbsentId, text |-> text, addedBy |-> <<"v">>] :
        text \in {<<"a", " ">>, Blank}}

FaultCreateRelationshipInputs ==
    {Relationship(None, <<"e", "1">>, <<"e", "2">>, <<"r">>, <<"u">>, DefaultId),
     Relationship(None, <<"e", "1">>, <<"e", "1">>, <<"r">>, <<"u">>, DefaultId)}

FaultCreateProjectInputs ==
    {[id |-> None, name |-> name, description |-> None] : name \in ProjectNameInputs}

InitFaults ==
    \E file \in FaultSnapshots, environment \in FaultEnvironments :
        /\ Construct(file)
        /\ retriever = None
        /\ env = environment
        /\ pre = NoHistory

NextFaults ==
    \/ \E entity \in FaultCreateEntityInputs : CreateEntity(entity)
    \/ \E entity_id \in EntityIdInputs, updates \in FaultUpdateInputs :
            UpdateEntity(entity_id, updates)
    \/ \E entity_id \in EntityIdInputs : DeleteEntity(entity_id)
    \/ \E entity_id \in {<<"e", "1">>, <<" ", "e", "1">>},
          observation \in ObservationInputs :
            AddObservation(entity_id, observation)
    \/ \E relationship \in FaultCreateRelationshipInputs :
            CreateRelationship(relationship)
    \/ \E relationship_id \in RelationshipIdInputs : DeleteRelationship(relationship_id)
    \/ \E project \in FaultCreateProjectInputs : CreateProject(project)
    \/ \E project_id \in DeleteProjectInputs : DeleteProject(project_id)

SpecFaults == InitFaults /\ [][NextFaults]_vars

----------------------------------------------------------------------------
(* The claims about the snapshot and the external index.                   *)

(* The store a fresh process has after it is constructed on the file.      *)
Reloaded(file) ==
    [entities |-> LoadMetadata(file).entities,
     relationships |-> LoadMetadata(file).relationships,
     projects |-> EnsureDefaultProject(LoadMetadata(file).projects)]

(* C22: in every reachable state, the snapshot written from the store and  *)
(* loaded by a fresh store gives back the entities, the relationships and  *)
(* the projects, equal field by field and in the same order, and the       *)
(* default project is among the projects.                                  *)
C22_SnapshotRoundTrip ==
    LET fresh == Reloaded(File("document", entities, relationships, projects))
    IN  /\ fresh.entities = entities
        /\ fresh.relationships = relationships
        /\ fresh.projects = projects
        /\ DefaultId \in Keys(fresh.projects)


MutatingOps ==
    {"create_entity", "update_entity", "delete_entity", "add_observation",
     "create_relationship", "delete_relationship", "create_project",
     "delete_project"}

(* The calls of the last request after its in-memory mutation.             *)
CallsAfterMutation == SelectSeq(done, LAMBDA method : method # "uuid4")

(* C23: a mutating request that has succeeded has called _save_metadata    *)
(* and then _rebuild_video, in this order and nothing else; and between    *)
(* requests the snapshot file is the document of the store in memory.      *)
C23_SaveThenRebuild ==
    /\ (last.op \in MutatingOps /\ last.status = 200)
           => CallsAfterMutation = <<"_save_metadata", "_rebuild_video">>
    /\ snapshot = File("document", entities, relationships, projects)

(* The file cannot be parsed, or one of its records cannot be made into    *)
(* an Entity, a Relationship or a Project.                                 *)
Corrupt(file) ==
    \/ file.state = "unreadable"
    \/ /\ file.state = "document"
       /\ \/ \E i \in DOMAIN file.entities : ~ModelOk("entities", file.entities[i])
          \/ \E i \in DOMAIN file.relationships :
                 ~ModelOk("relationships", file.relationships[i])
          \/ \E i \in DOMAIN file.projects : ~ModelOk("projects", file.projects[i])

(* C24: a store constructed on a corrupt snapshot has no entities, no      *)
(* relationships and the default project only.                             *)
C24_CorruptSnapshotEmptyGraph ==
    (last.op = "init" /\ Corrupt(snapshot))
        => /\ entities = <<>>
           /\ relationships = <<>>
           /\ projects = <<DefaultProject>>

(* The last request called the method.                                     *)
Called(method, calls) == \E i \in DOMAIN calls : calls[i] = method

(* The step has made in memory the change of the request it answers.       *)
MutationApplied ==
    CASE last'.op = "create_entity" ->
             /\ entities' # entities
             /\ Len(entities') >= Len(entities)
      [] last'.op = "update_entity" ->
             /\ last'.id \in Keys(entities')
             /\ \E updates \in UpdateInputs \cup FaultUpdateInputs :
                    \A field \in DOMAIN updates :
                        Lookup(entities', last'.id)[field]
                            = CleanUpdates(updates)[field]
      [] last'.op = "delete_entity" ->
             last'.id \in Keys(entities) \ Keys(entities')
      [] last'.op = "add_observation" ->
             Len(Lookup(entities', last'.id).observations)
                 = Len(Lookup(entities, last'.id).observations) + 1
      [] last'.op = "create_relationship" ->
             Len(relationships') = Len(relationships) + 1
      [] last'.op = "delete_relationship" ->
             last'.id \in Keys(relationships) \ Keys(relationships')
      [] last'.op = "create_project" ->
             Len(projects') = Len(projects) + 1
      [] last'.op = "delete_project" ->
             Strip(last'.id) \in Keys(projects) \ Keys(projects')

(* C25: a request that comes to call _rebuild_video is answered with its   *)
(* success and has made its change in memory, whether the memvid package   *)
(* is absent, builds the video or raises.                                  *)
C25_RebuildFailureTolerated ==
    [][Called("_rebuild_video", done')
          => last'.status = 200 /\ MutationApplied]_vars

(* An entity was created and the rebuild that followed raised: memvid is   *)
(* installed, the rebuild was called, and there is still no retriever.     *)
C25_Witness ==
    /\ last.op = "create_entity" /\ last.status = 200
    /\ env.memvid = "unreliable"
    /\ Called("_rebuild_video", done)
    /\ retriever = None
    /\ entities # <<>>

(* C26: on a disk that cannot be written, a request that comes to call     *)
(* _save_metadata is answered with its success and has made its change in  *)
(* memory, where list_entities finds it; the file is as it was or cut      *)
(* short.                                                                  *)
C26_SaveFailureTolerated ==
    [][(Called("_save_metadata", done') /\ env.disk = "failing")
          => /\ last'.status = 200
             /\ MutationApplied
             /\ KgListEntities(None, None)' = entities'
             /\ snapshot' \in {snapshot, Unreadable}]_vars

(* An entity was created while the write of the snapshot failed and left   *)
(* the file cut short.                                                     *)
C26_Witness ==
    /\ last.op = "create_entity" /\ last.status = 200
    /\ env.disk = "failing"
    /\ Called("_save_metadata", done)
    /\ snapshot = Unreadable
    /\ Len(entities) = 2

----------------------------------------------------------------------------
(* The claims about what a request leaves alone.                           *)

StoreUnchanged ==
    /\ entities' = entities /\ relationships' = relationships
    /\ projects' = projects /\ snapshot' = snapshot

(* What an update of entity_id by the field map may change.                *)
UpdateFrame(entity_id, updates) ==
    IF entity_id \notin Keys(entities)
    THEN last'.status = 404 /\ StoreUnchanged
    ELSE IF last'.status # 200 THEN StoreUnchanged
    ELSE /\ [i \in DOMAIN entities' |-> entities'[i].id]
                = [i \in DOMAIN entities |-> entities[i].id]
         /\ \A i \in DOMAIN entities :
                IF entities[i].id # entity_id THEN entities'[i] = entities[i]
                ELSE \A field \in DOMAIN entities[i] :
                        \/ entities'[i][field] = entities[i][field]
                        \/ /\ field \in {"name", "type", "description", "projectId"}
                           /\ field \in DOMAIN updates
         /\ relationships' = relationships
         /\ projects' = projects

(* C27: a step that answers updateEntity(id, fieldMap) answers 404 and     *)
(* changes nothing when id is absent; when the update succeeds it changes, *)
(* in the entity id, no field other than those of name, type, description  *)
(* and projectId that are in fieldMap, and it leaves the other entities,   *)
(* their order, the relationships and the projects as they were.           *)
C27_UpdateFrame ==
    [][last'.op = "update_entity"
          => \A updates \in UpdateInputs :
                 UpdateEntity(last'.id, updates) => UpdateFrame(last'.id, updates)]_vars

(* The first of two stored entities has been updated, with a relationship  *)
(* between them in the store.                                              *)
C27_Witness ==
    /\ last.op = "update_entity" /\ last.status = 200
    /\ Len(entities) = 2 /\ entities[1].id = last.id
    /\ entities[1].projectId # DefaultId
    /\ relationships # <<>>

(* C28: a step that answers a request with 400, 404 or 409 leaves the      *)
(* entities, the relationships, the projects and the snapshot file as they *)
(* were.                                                                   *)
C28_RejectedChangesNothing ==
    [][last'.status \in {400, 404, 409} => StoreUnchanged]_vars

(* A duplicate relationship has just been refused in a store of two        *)
(* entities whose snapshot could not be written.                           *)
C28_Witness ==
    /\ last.op = "create_relationship" /\ last.status = 409
    /\ Len(entities) = 2 /\ relationships # <<>>
    /\ snapshot # File("document", entities, relationships, projects)

----------------------------------------------------------------------------
(* The event loop.  Requests that have arrived together are tasks, and the *)
(* handlers of create_entity and delete_entity are followed statement by   *)
(* statement: pc is the statement a task is at ("start": its handler has   *)
(* not been entered; "done": it has answered).  The loop gives the thread  *)
(* to another task only where the running one suspends at an await.        *)

NumTasks == 2

Task(op, arg) == [op |-> op, arg |-> arg, pc |-> "start", status |-> 0]

(* Mutant: awaiting a method of the store gives the thread away.           *)
SuspendsAtStoreCall(pc) ==
    pc \in {"await kg.create_entity", "await kg.delete_entity"}

(* Every await of the handlers and of the store is on a coroutine that     *)
(* itself awaits nothing but such coroutines (_rebuild_video calls the     *)
(* encoder synchronously): it runs to its return without suspending.       *)
Suspends(pc) == FALSE

InHandler(task) == task.pc \notin {"start", "done"}

(* The loop runs task t: no other task is in its handler, unless           *)
(* suspended.                                                              *)
CanRun(t) ==
    \A u \in DOMAIN tasks \ {t} : InHandler(tasks[u]) => Suspends(tasks[u].pc)

At(t, op, pc) == tasks[t].op = op /\ tasks[t].pc = pc /\ CanRun(t)

Goto(t, pc) == tasks' = [tasks EXCEPT ![t].pc = pc]

Answer(t, status) == tasks' = [tasks EXCEPT ![t].pc = "done", ![t].status = status]

(* create_entity of api/entities.py, up to `await kg.create_entity'.       *)
EnterCreateEntity(t) ==
    /\ At(t, "create_entity", "start")
    /\ IF CreateEntityResponse(tasks[t].arg) # Success
       THEN Answer(t, CreateEntityResponse(tasks[t].arg).status)
       ELSE Goto(t, "await kg.create_entity")
    /\ UNCHANGED <<entities, relationships, projects, snapshot, issued, retriever>>

(* self.entities[entity.id] = entity                                       *)
AssignEntity(t) ==
    /\ At(t, "create_entity", "await kg.create_entity")
    /\ \E id \in IdOrUuid(tasks[t].arg.id, EntityIdPool) :
           /\ entities' = Put(entities, [CleanEntityData(tasks[t].arg) EXCEPT !.id = id])
           /\ issued' = issued \cup {id}
    /\ Goto(t, "_save_metadata")
    /\ UNCHANGED <<relationships, projects, snapshot, retriever>>

(* delete_entity of api/entities.py, up to `await kg.delete_entity'.       *)
EnterDeleteEntity(t) ==
    /\ At(t, "delete_entity", "start")
    /\ IF ValidateEntityId(tasks[t].arg, entities) # Ok
       THEN Answer(t, ValidateEntityId(tasks[t].arg, entities).status)
       ELSE Goto(t, "await kg.delete_entity")
    /\ UNCHANGED <<entities, relationships, projects, snapshot, issued, retriever>>

(* del self.entities[entity_id], or the return of False.                   *)
DelEntity(t) ==
    /\ At(t, "delete_entity", "await kg.delete_entity")
    /\ IF tasks[t].arg \notin Keys(entities)
       THEN Answer(t, 404) /\ UNCHANGED entities
       ELSE /\ entities' = DelKeys(entities, {tasks[t].arg})
            /\ Goto(t, "rels_to_delete")
    /\ UNCHANGED <<relationships, projects, snapshot, issued, retriever>>

(* The relationships of the deleted entity are deleted.                    *)
DelRelationships(t) ==
    /\ At(t, "delete_entity", "rels_to_delete")
    /\ relationships' =
           SelectSeq(relationships, LAMBDA rel : ~Incident(rel, tasks[t].arg))
    /\ Goto(t, "_save_metadata")
    /\ UNCHANGED <<entities, projects, snapshot, issued, retriever>>

(* self._save_metadata()                                                   *)
TaskSave(t) ==
    /\ tasks[t].pc = "_save_metadata" /\ CanRun(t)
    /\ UNCHANGED <<entities, relationships, projects, issued, retriever>>
    /\ \E saved \in SaveOutcomes : SaveMetadata(saved)
    /\ Goto(t, "await _rebuild_video")

(* await self._rebuild_video(), and the return to the client.              *)
TaskRebuild(t) ==
    /\ tasks[t].pc = "await _rebuild_video" /\ CanRun(t)
    /\ UNCHANGED <<entities, relationships, projects, snapshot, issued>>
    /\ \E built \in RebuildOutcomes : RebuildVideo(built)
    /\ Answer(t, 200)

(* The store the loop starts on: "e3" and "e4", and a relationship between *)
(* them or none.  The requests: creations of the same new entity (written  *)
(* in two ways) and of a stored one, and deletions of either entity.       *)
TaskInputs ==
    {Task("create_entity", Entity(None, name, <<"t">>, <<"d">>, <<"u">>, DefaultId)) :
        name \in {<<"c">>, <<" ", "C">>, <<"a">>}}
    \cup {Task("delete_entity", entity_id) :
            entity_id \in {GraphEntityId(3), GraphEntityId(4)}}

InitLoop ==
    \E requests \in [1..NumTasks -> TaskInputs], environment \in FaultEnvironments,
       graph \in {<<>>, <<Relationship(<<"r", "1">>, GraphEntityId(3),
                                       GraphEntityId(4), <<"r">>, <<"u">>,
                                       DefaultId)>>} :
        /\ entities = <<Entity(GraphEntityId(3), <<"a">>, <<"t">>, <<"d">>, <<"u">>,
                               DefaultId),
                        Entity(GraphEntityId(4), <<"b">>, <<"t">>, <<"d">>, <<"u">>,
                               DefaultId)>>
        /\ relationships = graph
        /\ projects = <<DefaultProject>>
        /\ snapshot = File("document", entities, relationships, projects)
        /\ issued = Keys(entities) \cup Keys(relationships) \cup Keys(projects)
        /\ last = [op |-> "init", id |-> None, status |-> 0, detail |-> "ok"]
        /\ pre = NoHistory
        /\ retriever = None
        /\ call = Idle
        /\ env = environment
        /\ done = <<>>
        /\ tasks = requests

NextLoop ==
    /\ \E t \in DOMAIN tasks :
           \/ EnterCreateEntity(t)
           \/ AssignEntity(t)
           \/ EnterDeleteEntity(t)
           \/ DelEntity(t)
           \/ DelRelationships(t)
           \/ TaskSave(t)
           \/ TaskRebuild(t)
    /\ UNCHANGED <<last, pre, call, env, done>>

SpecLoop == InitLoop /\ [][NextLoop]_vars

(* A relationship names an entity that is not stored.                      *)
Dangling ==
    \E i \in DOMAIN relationships :
        \/ relationships[i].sourceId \notin Keys(entities)
        \/ relationships[i].targetId \notin Keys(entities)

(* C29: no two requests are inside their handlers at the same time; a      *)
(* request that enters its handler, where it reads the store for its       *)
(* checks, finds no other request inside its handler and no relationship   *)
(* of a deleted entity; and two createEntity requests with the same name,  *)
(* type and project are not both answered with success.                    *)
C29_HandlersRunToCompletion ==
    /\ [](/\ \A t, u \in DOMAIN tasks :
                 (InHandler(tasks[t]) /\ InHandler(tasks[u])) => t = u
          /\ \A t, u \in DOMAIN tasks :
                 (/\ t # u
                  /\ tasks[t].op = "create_entity" /\ tasks[u].op = "create_entity"
                  /\ tasks[t].status = 200 /\ tasks[u].status = 200)
                    => ~SameEntityKey(tasks[t].arg, CleanEntityData(tasks[u].arg)))
    /\ [][\A t \in DOMAIN tasks :
              (tasks[t].pc = "start" /\ tasks'[t].pc # "start")
                  => /\ \A u \in DOMAIN tasks : ~InHandler(tasks[u])
                     /\ ~Dangling]_vars

(* Two creations of the same new entity have been answered, one with       *)
(* success and the other with 409.                                         *)
C29_Witness ==
    /\ tasks # <<>>
    /\ \A t \in DOMAIN tasks : tasks[t].op = "create_entity" /\ tasks[t].pc = "done"
    /\ SameEntityKey(tasks[1].arg, CleanEntityData(tasks[2].arg))
    /\ {tasks[t].status : t \in DOMAIN tasks} = {200, 409}
    /\ Len(entities) = 3

----------------------------------------------------------------------------
(* Generated identifiers.                                                  *)

(* The last request created an entity without an identifier of its own:    *)
(* the entity is the newest of the store, under the identifier that uuid4  *)
(* returned.                                                               *)
JustGenerated ==
    /\ last.op = "create_entity" /\ last.status = 200
    /\ Called("uuid4", done)
    /\ entities # <<>>

Newest == entities[Len(entities)]

(* The request of this step has created an entity under a generated        *)
(* identifier.                                                             *)
Generates ==
    /\ last'.op = "create_entity" /\ last'.status = 200
    /\ Called("uuid4", done')

(* The identifier is new, and the entity is added at the side of the       *)
(* stored ones.                                                            *)
GeneratedIsNew ==
    /\ Len(entities') = Len(entities) + 1
    /\ entities'[Len(entities')].id \notin Keys(entities)
    /\ \A i \in DOMAIN entities : entities'[i] = entities[i]

(* The entity with the generated identifier is still stored under it, and  *)
(* it is the entity it was unless the request is an update of it.          *)
GeneratedIsKept ==
    /\ Newest.id \in Keys(entities')
    /\ last'.op # "update_entity" => Lookup(entities', Newest.id) = Newest

(* C30: an entity created without an identifier gets one that no stored    *)
(* entity has, and a later request that does not delete it leaves it       *)
(* stored under that identifier.                                           *)
C30_GeneratedIdUniqueAndStable ==
    [][/\ Generates => GeneratedIsNew
       /\ (JustGenerated /\ last'.op \notin {"delete_entity", "delete_project"})
              => GeneratedIsKept]_vars

----------------------------------------------------------------------------
(* Observations.  The service is started on a snapshot in which "e1" has   *)
(* none, one or two observations of an earlier run, and receives the       *)
(* requests of NextFaults.                                                 *)

NewObservation(id, text, addedBy) ==
    [id |-> id, text |-> text, addedBy |-> addedBy]

EarlierObservations ==
    {<<>>,
     <<NewObservation(<<"o", "8">>, <<"x">>, <<"w">>)>>,
     <<NewObservation(<<"o", "8">>, <<"x">>, <<"w">>),
       NewObservation(<<"o", "9">>, <<"y">>, <<"v">>)>>}

ObservationSnapshots ==
    {File("document",
          <<[Entity(<<"e", "1">>, <<"c">>, <<"t">>, <<"d">>, <<"u">>, DefaultId)
                EXCEPT !.observations = earlier]>>,
          <<>>,
          projs) :
        earlier \in EarlierObservations,
        projs \in {<<DefaultProject>>,
                   <<DefaultProject,
                     [id |-> <<"p", "1">>, name |-> <<"Q">>, description |-> None]>>}}

InitObservations ==
    \E file \in ObservationSnapshots :
        /\ Construct(file)
        /\ retriever = None
        /\ env = Plain
        /\ pre = NoHistory

SpecObservations == InitObservations /\ [][NextFaults]_vars

(* What add_observation of the store, called with the cleaned text and     *)
(* author of the request and returning obs_id, has done.                   *)
AddObservationFrame(entity_id, obs_data, obs_id) ==
    IF entity_id \notin Keys(entities)
    THEN obs_id = None /\ last'.status = 404 /\ StoreUnchanged
    ELSE /\ obs_id # None /\ last'.status = 200
         /\ Len(entities') = Len(entities)
         /\ Lookup(entities', entity_id).observations
                = Append(Lookup(entities, entity_id).observations,
                         NewObservation(obs_id, obs_data.text, obs_data.addedBy))
         /\ \A i \in DOMAIN entities :
                entities[i].id # entity_id => entities'[i] = entities[i]
         /\ relationships' = relationships

(* C31: add_observation on an absent entity is answered with 404 and       *)
(* changes nothing; on a stored entity it appends one observation with the *)
(* text and author it was given to the end of the entity's list, returns   *)
(* the identifier of that observation, and leaves the earlier observations *)
(* of the entity, the other entities and the relationships as they were.   *)
C31_AddObservationFrame ==
    [][last'.op = "add_observation" =>
          /\ last'.status = 404 => StoreUnchanged
          /\ \A observation \in ObservationInputs,
                obs_id \in ObservationIdPool \cup {None} :
                 AddObservationReturns(last'.id,
                     CleanObservationData([observation EXCEPT !.entityId = last'.id]),
                     obs_id)
                 => AddObservationFrame(last'.id,
                        CleanObservationData([observation EXCEPT
                                                 !.entityId = last'.id]),
                        obs_id)]_vars

(* A third observation has been added to "e1", after the two it had.       *)
C31_Witness ==
    /\ last.op = "add_observation" /\ last.status = 200
    /\ Len(Lookup(entities, <<"e", "1">>).observations) = 3
    /\ Lookup(entities, <<"e", "1">>).observations[3]
           = NewObservation(<<"o", "1">>, <<"a">>, <<"v">>)

IsPrefix(earlier, later) ==
    /\ Len(earlier) <= Len(later)
    /\ \A i \in DOMAIN earlier : later[i] = earlier[i]

(* C32: a request keeps, for every entity identifier that is stored before *)
(* and after it, the observations of the entity as the beginning of its    *)
(* observation list; over a sequence of requests during which the          *)
(* identifier stays stored, the list of every earlier state is therefore a *)
(* prefix of the list of every later one.                                  *)
C32_ObservationsAppendOnly ==
    [][\A id \in Keys(entities) \cap Keys(entities') :
          IsPrefix(Lookup(entities, id).observations,
                   Lookup(entities', id).observations)]_vars

(* C36: a create_entity request answered with success has added one       *)
(* entity and has left every stored entity as it was, whether or not the   *)
(* request names an identifier.                                            *)
C36_CreateEntityAddsOne ==
    [][(last'.op = "create_entity" /\ last'.status = 200)
          => /\ Len(entities') = Len(entities) + 1
             /\ \A i \in DOMAIN entities : entities'[i] = entities[i]]_vars

----------------------------------------------------------------------------
(* Projects.  Requests that create projects under names that differ in     *)
(* case and in surrounding blanks, one of them the name of the default     *)
(* project, with and without an identifier, and requests that delete them. *)

ProjectInputs ==
    [id : {None, DefaultId, <<"p", "1">>, <<"p", "2">>},
     name : {<<"P">>, <<" ", "p">>, <<"d", "E", "F">>, Blank},
     description : {None}]

InitProjects ==
    \E file \in InitSnapshots :
        Construct(file) /\ pre = NoHistory /\ retriever = None /\ env = Plain

NextProjects ==
    \/ \E project \in ProjectInputs : CreateProject(project)
    \/ \E project_id \in {<<"p", "1">>, <<"p", "2">>, DefaultId} :
            DeleteProject(project_id)

SpecProjects == InitProjects /\ [][NextProjects]_vars

SameProjectName(name, other) == Lower(name) = Lower(other)

----------------------------------------------------------------------------
(* C34: the sourceId and the targetId of every stored relationship are     *)
(* identifiers of stored entities.                                         *)
C34_ReferentialIntegrity ==
    \A i \in DOMAIN relationships :
        /\ relationships[i].sourceId \in Keys(entities)
        /\ relationships[i].targetId \in Keys(entities)

----------------------------------------------------------------------------
(* Reachability.  The traversal is run on one graph of five entities,      *)
(* "e1" -> "e2" -> "e3" -> "e4" -> "e5" with the shortcut "e1" -> "e3",    *)
(* whose relationships are stored in every order.                          *)

NumReachEntityIds == 5

ReachEdges ==
    <<(<<1, 2>>), (<<2, 3>>), (<<1, 3>>), (<<3, 4>>), (<<4, 5>>)>>

Orders(n) == {order \in [1..n -> 1..n] : \A i, j \in 1..n : order[i] = order[j] => i = j}

ReachGraphs ==
    {[i \in DOMAIN ReachEdges |->
         Relationship(<<"r", Digits[order[i]]>>,
                      GraphEntityId(ReachEdges[order[i]][1]),
                      GraphEntityId(ReachEdges[order[i]][2]),
                      <<"r">>, <<"u">>, DefaultId)] :
        order \in Orders(Len(ReachEdges))}

InitReach ==
    \E graph \in ReachGraphs :
        /\ entities = [i \in 1..NumReachEntityIds |->
                          Entity(GraphEntityId(i), <<Digits[i]>>, <<"t">>, <<"d">>,
                                 <<"u">>, DefaultId)]
        /\ relationships = graph
        /\ projects = <<DefaultProject>> \o
                      [i \in 1..NumProjectIds |->
                          [id |-> <<"p", Digits[i]>>, name |-> <<"P", Digits[i]>>,
                           description |-> None]]
        /\ snapshot = File("document", entities, relationships, projects)
        /\ issued = Keys(entities) \cup Keys(relationships) \cup Keys(projects)
        /\ last = [op |-> "init", id |-> None, status |-> 0, detail |-> "ok"]
        /\ pre = NoHistory
        /\ retriever = None
        /\ call = Idle
        /\ env = Plain
        /\ done = <<>>
        /\ tasks = <<>>

SpecReach == InitReach /\ [][NextTraverse]_vars

(* C35: the list that find_related_entities returns holds every entity,    *)
(* other than the start, that a path of at most `depth' relationships      *)
(* which pass the filters and follow the direction leads to from the       *)
(* start, in whatever order the relationships are stored.                  *)
C35_FindRelatedComplete ==
    RelatedReturned
        => (Within(call.depth) \ {call.entity_id})
              \subseteq ResultEntities(call.unique_results)

----------------------------------------------------------------------------
(* The details of the analytics.  The stores: the first n of seven         *)
(* entities, the first with up to two observations and in either project,  *)
(* and the first m relationships of a list that joins them, the first of   *)
(* the relationships in either project.  A relationship may name the       *)
(* entity after the last stored one: it was in a project that has been     *)
(* deleted.                                                                *)

NumDetailEntityIds == 7

DetailDigits == <<"1", "2", "3", "4", "5", "6", "7">>

DetailEntityId(n) == <<"e", DetailDigits[n]>>

DetailEdges ==
    <<(<<1, 2>>), (<<3, 2>>), (<<2, 4>>), (<<5, 4>>), (<<4, 6>>), (<<6, 7>>)>>

DetailStores ==
    {[entities |->
          [i \in 1..n |->
              [Entity(DetailEntityId(i), <<"a">>, <<"t">>, <<"d">>, <<"u">>,
                      IF i = 1 THEN project_id ELSE DefaultId)
                  EXCEPT !.observations =
                      IF i = 1
                      THEN [k \in 1..observations |->
                               NewObservation(<<"o", Digits[k]>>, <<"x">>, <<"u">>)]
                      ELSE <<>>]],
      relationships |->
          [i \in 1..m |->
              Relationship(<<"r", DetailDigits[i]>>,
                           DetailEntityId(DetailEdges[i][1]),
                           DetailEntityId(DetailEdges[i][2]), <<"r">>, <<"u">>,
                           IF i = 1 THEN project_id ELSE DefaultId)]] :
        n \in 0..NumDetailEntityIds,
        m \in 0..Len(DetailEdges),
        observations \in 0..2,
        project_id \in ProjectIdInputs}

InitDetails ==
    \E store \in {st \in DetailStores :
                     \A i \in DOMAIN st.relationships :
                         /\ DetailEdges[i][1] <= Len(st.entities) + 1
                         /\ DetailEdges[i][2] <= Len(st.entities) + 1} :
        /\ entities = store.entities
        /\ relationships = store.relationships
        /\ projects = <<DefaultProject>> \o
                      [i \in 1..NumProjectIds |->
                          [id |-> <<"p", Digits[i]>>, name |-> <<"P", Digits[i]>>,
                           description |-> None]]
        /\ snapshot = File("document", entities, relationships, projects)
        /\ issued = Keys(entities) \cup Keys(relationships) \cup Keys(projects)
        /\ last = [op |-> "init", id |-> None, status |-> 0, detail |-> "ok"]
        /\ pre = NoHistory
        /\ retriever = None
        /\ call = Idle
        /\ env = Plain
        /\ done = <<>>
        /\ tasks = <<>>

NextDetails ==
    \E project_id \in {None, AbsentId} \cup ProjectIdInputs,
       include_details \in BOOLEAN :
        GetAnalytics(project_id, include_details)

SpecDetails == InitDetails /\ [][NextDetails]_vars

(* The relationships in scope that have the identifier as their source, and *)
(* those that have it as their target.                                     *)
Degree(entity_id, project_id) ==
    Cardinality({i \in Scope(relationships, project_id) :
                    relationships[i].sourceId = entity_id})
    + Cardinality({i \in Scope(relationships, project_id) :
                      relationships[i].targetId = entity_id})

(* C38: a get_analytics request is never answered with 500; with the       *)
(* details, both averages are 0 when no entity is in scope and otherwise   *)
(* the observations and the relationships in scope divided by the entities *)
(* in scope; and most_connected_entities, when it is there, lists at most  *)
(* TopConnectedEntitiesLimit identifiers of entities, each with the number *)
(* of relationship ends it has in scope, in non-increasing order of that   *)
(* number.                                                                 *)
C38_AnalyticsDetails ==
    /\ call.op = "get_analytics" => call.status # 500
    /\ (/\ call.op = "get_analytics" /\ call.status = 200
        /\ call.result.include_details)
          => LET a == call.result.analytics
                 project_id == call.result.project_id
                 in_scope == Cardinality(Scope(entities, project_id))
             IN  /\ {"avg_observations_per_entity", "avg_relationships_per_entity"}
                        \subseteq DOMAIN a
                 /\ in_scope = 0
                        => /\ a.avg_observations_per_entity.num = 0
                           /\ a.avg_relationships_per_entity.num = 0
                 /\ in_scope > 0
                        => /\ a.avg_observations_per_entity.num * in_scope
                                  = a.avg_observations_per_entity.den
                                        * a.total_observations
                           /\ a.avg_relationships_per_entity.num * in_scope
                                  = a.avg_relationships_per_entity.den
                                        * a.total_relationships
                 /\ a.avg_observations_per_entity.den > 0
                 /\ a.avg_relationships_per_entity.den > 0
                 /\ "most_connected_entities" \in DOMAIN a
                        => LET most == a.most_connected_entities
                           IN  /\ Len(most) <= TopConnectedEntitiesLimit
                               /\ \A i \in DOMAIN most :
                                      /\ most[i][1] \in Keys(entities)
                                      /\ most[i][2] = Degree(most[i][1], project_id)
                               /\ \A i, j \in DOMAIN most :
                                      i < j => most[i][2] >= most[j][2]

====
